---- MODULE Spec2Model ----
(***************************************************************************)
(* The claim accountability ledger: InMemoryEventStore (app/db/store.py)   *)
(* driven by LedgerService (app/core/ledger.py) from several request       *)
(* threads.  LedgerService appends through the store's legacy two-phase    *)
(* API (reserve_head / commit_append / rollback), which keeps the open     *)
(* append scope in two attributes of the shared store object.              *)
(*                                                                         *)
(* A writer is one thread running one LedgerService operation; its steps   *)
(* are the points where the interpreter may switch threads between reads   *)
(* and writes of shared attributes.  A generator-based context manager     *)
(* that loses its last reference while suspended at its yield is closed    *)
(* at once (reference counting), which runs begin_append's finally block.  *)
(***************************************************************************)
EXTENDS Integers, Sequences, FiniteSets, TLC

VARIABLES store, ledger, th, anchor

vars == <<store, ledger, th, anchor>>

----------------------------------------------------------------------------
(* Value domains.                                                          *)

Writers == {"w1", "w2"}
Editors == {"e1", "e2"}
ClaimIds == {"c1", "c2"}
EvidenceIds == {"v1", "v2"}
\* Key pairs are named by one token: private key k belongs to public key k.
\* BadKey is a string that is no base64 Ed25519 private key.
KeyPairs == {"k1", "k2"}
BadKey == "bad"
Roles == {"admin", "editor"}

\* Operations each writer runs (a bound of the model).
OpsPerWriter == 1

\* Operations run altogether on the established ledger (a bound of the model).
LongOps == 3

None == "None"
NoHash == <<>>
NoScope == 0
Scopes == 1 .. (IF LongOps > 2 * OpsPerWriter THEN LongOps ELSE 2 * OpsPerWriter)

----------------------------------------------------------------------------
(* Payloads, hashing, signing.                                             *)

Payload(editor_id, role, public_key, by, claim_id, evidence_id, evidence_ids, status) ==
    [editor_id |-> editor_id, role |-> role, public_key |-> public_key, by |-> by,
     claim_id |-> claim_id, evidence_id |-> evidence_id,
     supporting_evidence_ids |-> evidence_ids, status |-> status]

EditorRegisteredPayload(editor_id, role, public_key, registered_by) ==
    Payload(editor_id, role, public_key, registered_by, None, None, <<>>, None)

EditorDeactivatedPayload(editor_id, deactivated_by) ==
    Payload(editor_id, None, None, deactivated_by, None, None, <<>>, None)

ClaimDeclaredPayload(claim_id) ==
    Payload(None, None, None, None, claim_id, None, <<>>, "declared")

ClaimOperationalizedPayload(claim_id) ==
    Payload(None, None, None, None, claim_id, None, <<>>, "operationalized")

EvidenceAddedPayload(evidence_id, claim_id) ==
    Payload(None, None, None, None, claim_id, evidence_id, <<>>, None)

ClaimResolvedPayload(claim_id, evidence_ids) ==
    Payload(None, None, None, None, claim_id, None, evidence_ids, "resolved")

\* A payload key holds a value, holds None, or is Absent from the dict; Float
\* stands for a value of a kind the canonical form does not admit.
Absent == "Absent"
Float == "0.5"
ScalarKeys == {"editor_id", "role", "public_key", "by", "claim_id", "evidence_id", "status"}

\* dict.get(key): a missing key reads as None.
get(data, key) == IF data[key] = Absent THEN None ELSE data[key]

\* Hasher._serialize_value raises CanonicalSerializationError for a float.
Canonicalizable(data) == \A key \in ScalarKeys : data[key] # Float

\* Hasher._to_canonical_dict: a key whose value is None is left out.
to_canonical_dict(data) ==
    [key \in DOMAIN data |->
        IF key \in ScalarKeys /\ data[key] = None THEN Absent ELSE data[key]]

\* Hasher.canonicalize, for a payload that is Canonicalizable.
canonicalize(data) == to_canonical_dict(data)

\* SHA-256 over the chain input as an ideal hash: the digest determines the
\* canonical payload and the previous digest it was computed from.
hash_event(payload, previous_hash) ==
    IF previous_hash = NoHash THEN <<canonicalize(payload)>>
    ELSE Append(previous_hash, canonicalize(payload))

\* Ed25519: a signature is bound to the message and to the signing key.
sign(message, private_key) == [message |-> message, key |-> private_key]

verify(message, signature, public_key) ==
    signature = [message |-> message, key |-> public_key]

Challenge == <<"accountabilityme-key-verification-challenge-v1">>

LedgerEvent(sequence_number, event_type, entity_id, payload, previous_hash, editor_id, private_key) ==
    [sequence_number |-> sequence_number, event_type |-> event_type,
     entity_id |-> entity_id, payload |-> payload,
     previous_event_hash |-> previous_hash,
     event_hash |-> hash_event(payload, previous_hash),
     created_by |-> editor_id,
     editor_signature |-> sign(hash_event(payload, previous_hash), private_key)]

ChainHead(last_sequence, last_event_hash) ==
    [last_sequence |-> last_sequence, last_event_hash |-> last_event_hash]

EmptyHead == ChainHead(-1, NoHash)

----------------------------------------------------------------------------
(* LedgerService projections.                                              *)

NoEditor ==
    [present |-> FALSE, role |-> None, public_key |-> None, is_active |-> FALSE,
     registered_by |-> None]

RegisteredEditor(role, public_key, is_active, registered_by) ==
    [present |-> TRUE, role |-> role, public_key |-> public_key,
     is_active |-> is_active, registered_by |-> registered_by]

EmptyLedger ==
    [events |-> <<>>, last_hash |-> NoHash, next_sequence |-> 0,
     claims |-> [c \in ClaimIds |-> None],
     claim_evidence |-> [c \in ClaimIds |-> <<>>],
     editors |-> [e \in Editors |-> NoEditor],
     public_key_to_editor |-> [k \in KeyPairs |-> None]]

has_genesis_editor(l) == \E e \in Editors : l.editors[e].present

Contains(seq, x) == \E i \in 1 .. Len(seq) : seq[i] = x

\* _rebuild_state_from_event: the projections after replaying one event.
rebuild_state_from_event(l, event) ==
    LET p == event.payload IN
    CASE event.event_type = "EDITOR_REGISTERED" ->
           [l EXCEPT !.editors[p.editor_id] =
                         RegisteredEditor(p.role, p.public_key, TRUE, get(p, "by")),
                     !.public_key_to_editor[p.public_key] = p.editor_id]
      [] event.event_type = "EDITOR_DEACTIVATED" ->
           IF l.editors[p.editor_id].present
           THEN [l EXCEPT !.editors[p.editor_id].is_active = FALSE]
           ELSE l
      [] event.event_type = "CLAIM_DECLARED" ->
           [l EXCEPT !.claims[p.claim_id] = p.status,
                     !.claim_evidence[p.claim_id] = <<>>]
      [] event.event_type = "CLAIM_OPERATIONALIZED" ->
           [l EXCEPT !.claims[p.claim_id] = p.status]
      [] event.event_type = "EVIDENCE_ADDED" ->
           [l EXCEPT !.claim_evidence[p.claim_id] =
                         IF l.claims[p.claim_id] # None
                         THEN Append(@, p.evidence_id) ELSE @,
                     !.claims[p.claim_id] =
                         IF @ = "operationalized" THEN "observing" ELSE @]
      [] event.event_type = "CLAIM_RESOLVED" ->
           [l EXCEPT !.claims[p.claim_id] = p.status]
      [] OTHER -> l

\* load_from_events (after the chain was verified): replay in sequence order.
RECURSIVE load_from_events(_)
load_from_events(events) ==
    IF events = <<>> THEN EmptyLedger
    ELSE LET n == Len(events)
             before == load_from_events(SubSeq(events, 1, n - 1))
             event == events[n]
         IN  rebuild_state_from_event(
                 [before EXCEPT !.events = Append(@, event),
                                !.last_hash = event.event_hash,
                                !.next_sequence = event.sequence_number + 1],
                 event)

----------------------------------------------------------------------------
(* Operations a caller may submit, and the chains a store may hold at      *)
(* start-up.                                                               *)

Op(kind, payload, editor_id, private_key) ==
    [kind |-> kind, payload |-> payload, editor |-> editor_id, key |-> private_key]

NoPayload == Payload(None, None, None, None, None, None, <<>>, None)
NoOp == Op(None, NoPayload, None, None)

EvidenceLists == {<<>>, <<"v1">>, <<"v2">>, <<"v1", "v2">>}
PrivateKeys == KeyPairs \cup {BadKey}

\* Self-registrations offered: every editor with every key pair, signed with
\* the private key of the pair; for e1 with k1 also signed with any other key.
GenesisOperations ==
    {Op("register_editor", EditorRegisteredPayload(e, "admin", k, None), None, pk) :
        <<e, k, pk>> \in {x \in Editors \X KeyPairs \X PrivateKeys :
                             x[3] = x[2] \/ (x[1] = "e1" /\ x[2] = "k1")}}

Operations ==
    GenesisOperations
    \cup {Op("register_editor", EditorRegisteredPayload(e, r, k, by), None, pk) :
        <<e, r, k, by, pk>> \in Editors \X Roles \X KeyPairs \X Editors \X PrivateKeys}
    \cup {Op("deactivate_editor", EditorDeactivatedPayload(e, by), None, pk) :
        <<e, by, pk>> \in Editors \X Editors \X PrivateKeys}
    \cup {Op("declare_claim", ClaimDeclaredPayload(c), e, pk) :
        <<c, e, pk>> \in ClaimIds \X Editors \X PrivateKeys}
    \cup {Op("operationalize_claim", ClaimOperationalizedPayload(c), e, pk) :
        <<c, e, pk>> \in ClaimIds \X Editors \X PrivateKeys}
    \cup {Op("add_evidence", EvidenceAddedPayload(v, c), e, pk) :
        <<v, c, e, pk>> \in EvidenceIds \X ClaimIds \X Editors \X PrivateKeys}
    \cup {Op("resolve_claim", ClaimResolvedPayload(c, vs), e, pk) :
        <<c, vs, e, pk>> \in ClaimIds \X EvidenceLists \X Editors \X PrivateKeys}

\* The requests made on the established ledger: those of e1 with e1's key.
LongOperations == {o \in Operations : o.editor = "e1" /\ o.key = "k1"}

EventType(kind) ==
    CASE kind = "register_editor" -> "EDITOR_REGISTERED"
      [] kind = "deactivate_editor" -> "EDITOR_DEACTIVATED"
      [] kind = "declare_claim" -> "CLAIM_DECLARED"
      [] kind = "operationalize_claim" -> "CLAIM_OPERATIONALIZED"
      [] kind = "add_evidence" -> "EVIDENCE_ADDED"
      [] kind = "resolve_claim" -> "CLAIM_RESOLVED"

EntityId(o) ==
    CASE o.kind \in {"register_editor", "deactivate_editor"} -> o.payload.editor_id
      [] o.kind = "add_evidence" -> o.payload.evidence_id
      [] OTHER -> o.payload.claim_id

\* The event _create_event_internal builds for operation o on head `head`.
EventFor(o, head) ==
    LedgerEvent(head.last_sequence + 1, EventType(o.kind), EntityId(o), o.payload,
                IF head.last_sequence + 1 = 0 THEN NoHash ELSE head.last_event_hash,
                o.editor, o.key)

\* Histories written earlier by one writer at a time, which the service
\* loads at start-up (_create_ledger).
Genesis == Op("register_editor", EditorRegisteredPayload("e1", "admin", "k1", None), "e1", "k1")
ByE1(kind, payload) == Op(kind, payload, "e1", "k1")
ByE2(kind, payload) == Op(kind, payload, "e2", "k2")

History ==
    << Genesis,
       ByE1("register_editor", EditorRegisteredPayload("e2", "admin", "k2", "e1")),
       ByE2("deactivate_editor", EditorDeactivatedPayload("e2", "e2")),
       ByE1("declare_claim", ClaimDeclaredPayload("c1")),
       ByE1("operationalize_claim", ClaimOperationalizedPayload("c1")),
       ByE1("declare_claim", ClaimDeclaredPayload("c2")),
       ByE1("operationalize_claim", ClaimOperationalizedPayload("c2")),
       ByE1("add_evidence", EvidenceAddedPayload("v2", "c2")),
       ByE1("resolve_claim", ClaimResolvedPayload("c2", <<"v2">>)) >>

\* The lengths at which the history is cut.
SeedLengths == {0, 1, 2, 3, 4, 8, 9}

RECURSIVE ChainOf(_)
ChainOf(script) ==
    IF script = <<>> THEN <<>>
    ELSE LET n == Len(script)
             before == ChainOf(SubSeq(script, 1, n - 1))
             head == IF before = <<>> THEN EmptyHead
                     ELSE ChainHead(n - 2, before[n - 1].event_hash)
         IN  Append(before, EventFor(script[n], head))

SeedChains == {ChainOf(SubSeq(History, 1, n)) : n \in SeedLengths}

HeadOf(events) ==
    IF events = <<>> THEN EmptyHead
    ELSE ChainHead(events[Len(events)].sequence_number, events[Len(events)].event_hash)

----------------------------------------------------------------------------
(* Merkle anchoring (app/core/anchor.py).                                  *)

\* The most batches an AnchorService holds, and the number of events of
\* the ledger it anchors.
MaxBatches == 2
MaxAnchored == 5

\* An event is known to the AnchorService by its id, here its position in
\* the ledger's event list.
EventIds == 1 .. Len(History)
NoBatch == 0

\* MerkleTree._hash_pair: SHA-256 of the two hex strings joined, an ideal
\* hash that determines the pair.
hash_pair(left, right) == <<[left |-> left, right |-> right]>>

\* "If odd number, duplicate last node": for the leaves always, for a later
\* level when it has more than one node.
Padded(level, leaves) ==
    IF Len(level) % 2 = 1 /\ (leaves \/ Len(level) > 1)
    THEN Append(level, level[Len(level)]) ELSE level

\* One pass of the pairing loop, with the padding of the level it makes.
NextLevel(level) ==
    Padded([i \in 1 .. (Len(level) \div 2) |-> hash_pair(level[2 * i - 1], level[2 * i])],
           FALSE)

\* MerkleTree._build_tree from the padded leaves on, and root_hash.
RECURSIVE build_tree(_)
build_tree(nodes) == IF Len(nodes) <= 1 THEN nodes[1] ELSE build_tree(NextLevel(nodes))

root_hash(hashes) == build_tree(Padded(hashes, TRUE))

\* The direction recorded for the node at current_index, mirrored.
DirectionMirrored(current_index) == IF current_index % 2 = 0 THEN "left" ELSE "right"

\* get_proof_hashes, lines 264-269: the sibling of an even index is on the
\* right, of an odd index on the left.
Direction(current_index) == IF current_index % 2 = 0 THEN "right" ELSE "left"

\* get_proof_hashes, the while loop (current_index counts from 0).
RECURSIVE ProofFrom(_, _)
ProofFrom(level_hashes, current_index) ==
    IF Len(level_hashes) <= 1 THEN [proof_hashes |-> <<>>, proof_directions |-> <<>>]
    ELSE LET sibling_index == IF current_index % 2 = 0 THEN current_index + 1
                              ELSE current_index - 1
             rest == ProofFrom(NextLevel(level_hashes), current_index \div 2)
         IN  [proof_hashes |-> <<level_hashes[sibling_index + 1]>> \o rest.proof_hashes,
              proof_directions |-> <<Direction(current_index)>> \o rest.proof_directions]

\* MerkleTree.get_proof_hashes for an event_hash that is among the leaves:
\* the proof of its first occurrence.
get_proof_hashes(leaves, event_hash) ==
    LET index == CHOOSE i \in 1 .. Len(leaves) :
                    /\ leaves[i] = event_hash
                    /\ \A j \in 1 .. (i - 1) : leaves[j] # event_hash
    IN  ProofFrom(Padded(leaves, TRUE), index - 1)

\* MerkleTree.verify_proof, the loop over zip(proof_hashes, proof_directions)
\* from step i on.
RECURSIVE Replay(_, _, _, _)
Replay(current_hash, proof_hashes, proof_directions, i) ==
    IF i > Len(proof_hashes) \/ i > Len(proof_directions) THEN current_hash
    ELSE Replay(IF proof_directions[i] = "left"
                THEN hash_pair(proof_hashes[i], current_hash)
                ELSE hash_pair(current_hash, proof_hashes[i]),
                proof_hashes, proof_directions, i + 1)

\* A verification that takes the sibling on whichever side reproduces the
\* root.
RECURSIVE ReplayEitherSide(_, _, _)
ReplayEitherSide(hashes, proof_hashes, i) ==
    IF i > Len(proof_hashes) THEN hashes
    ELSE ReplayEitherSide({hash_pair(proof_hashes[i], h) : h \in hashes}
                              \cup {hash_pair(h, proof_hashes[i]) : h \in hashes},
                          proof_hashes, i + 1)

verify_proof_either_side(event_hash, proof_hashes, proof_directions, expected_root) ==
    expected_root \in ReplayEitherSide({event_hash}, proof_hashes, 1)

verify_proof(event_hash, proof_hashes, proof_directions, expected_root) ==
    Replay(event_hash, proof_hashes, proof_directions, 1) = expected_root

\* AnchorService.__init__, and with it the _last_anchored_sequence of the
\* AnchorScheduler that feeds the service.
EmptyAnchor ==
    [batches |-> <<>>,
     event_to_batch |-> [id \in EventIds |-> NoBatch],
     event_to_hash |-> [id \in EventIds |-> NoHash],
     last_anchored_sequence |-> -1]

----------------------------------------------------------------------------
(* State.                                                                  *)

\* One append scope: the generator of begin_append and the AppendContext it
\* yields.
NewScope ==
    [gen |-> "created", entered |-> FALSE, conn |-> FALSE, committed |-> FALSE,
     rolled_back |-> FALSE, head |-> EmptyHead, releases |-> 0]

NoEvent == LedgerEvent(-1, None, None, NoPayload, NoHash, None, None)

Idle ==
    [pc |-> "idle", op |-> NoOp, target |-> NoEditor, head |-> EmptyHead,
     event |-> NoEvent, ctx |-> NoScope, gen |-> NoScope, err |-> None,
     res |-> None, n |-> 0]

\* The service starts on a store that holds `chain` (_create_ledger).
Start(chain) ==
    /\ store = [events |-> chain, head |-> HeadOf(chain), lock |-> FALSE,
                legacy_ctx |-> NoScope, legacy_ctx_gen |-> NoScope,
                scopes |-> [s \in Scopes |-> NewScope], nscopes |-> 0]
    /\ ledger = load_from_events(chain)
    /\ th = [w \in Writers |-> Idle]
    /\ anchor = EmptyAnchor

Init == \E chain \in SeedChains : Start(chain)

\* An established ledger: one active admin, no claim yet.
InitLong == Start(ChainOf(SubSeq(History, 1, 3)))

\* The operation of writer w ends with the exception `result`.  (An
\* operation that returns its event leaves `op` in place, see UpdateCache.)
Return(w, result) ==
    th' = [th EXCEPT ![w] = [Idle EXCEPT !.res = result, !.n = th[w].n + 1]]

Goto(w, pc) == th' = [th EXCEPT ![w].pc = pc]

----------------------------------------------------------------------------
(* LedgerService: validation against the cached projections.               *)

\* _validate_editor_for_action: "ok" or the error raised.
validate_editor_for_action(l, editor_id, required_roles) ==
    IF ~l.editors[editor_id].present THEN "EditorError"
    ELSE IF ~l.editors[editor_id].is_active THEN "EditorError"
    ELSE IF required_roles # {} /\ l.editors[editor_id].role \notin required_roles
         THEN "EditorError"
    ELSE "ok"

\* _require_signing_key_matches without the verification of the challenge
\* signature: any key that can sign is taken.
require_signing_key_matches_unverified(editor, private_key) ==
    IF private_key = BadKey THEN "EditorError" ELSE "ok"

\* _require_signing_key_matches: sign the challenge, verify with the
\* registered public key; a key that cannot sign is reported the same way.
require_signing_key_matches(editor, private_key) ==
    IF private_key = BadKey THEN "EditorError"
    ELSE IF ~verify(Challenge, sign(Challenge, private_key), editor.public_key)
         THEN "EditorError"
    ELSE "ok"

ValidateActingEditor(l, editor_id, required_roles, private_key) ==
    IF validate_editor_for_action(l, editor_id, required_roles) # "ok"
    THEN validate_editor_for_action(l, editor_id, required_roles)
    ELSE require_signing_key_matches(l.editors[editor_id], private_key)

\* register_editor, lines 301-338.
validate_register_editor(l, o) ==
    LET p == o.payload IN
    IF l.editors[p.editor_id].present THEN "EditorError"
    ELSE IF l.public_key_to_editor[p.public_key] # None THEN "EditorError"
    ELSE IF ~has_genesis_editor(l)
         THEN (IF p.by # None THEN "EditorError" ELSE "ok")
    ELSE IF p.by = None THEN "EditorError"
    ELSE ValidateActingEditor(l, p.by, {"admin"}, o.key)

ActiveAdmins(l) ==
    {e \in Editors : l.editors[e].present /\ l.editors[e].is_active
                     /\ l.editors[e].role = "admin"}

\* deactivate_editor, lines 383-411.
validate_deactivate_editor(l, o) ==
    LET p == o.payload IN
    IF ~l.editors[p.editor_id].present THEN "EditorError"
    ELSE IF ~l.editors[p.editor_id].is_active THEN "EditorError"
    ELSE IF ValidateActingEditor(l, p.by, {"admin"}, o.key) # "ok"
         THEN ValidateActingEditor(l, p.by, {"admin"}, o.key)
    ELSE IF p.editor_id = p.by /\ Cardinality(ActiveAdmins(l)) <= 1 THEN "EditorError"
    ELSE "ok"

validate_claim_declared(l, p) ==
    IF l.claims[p.claim_id] # None THEN "ValidationError" ELSE "ok"

validate_claim_operationalized(l, p) ==
    IF l.claims[p.claim_id] = None THEN "ValidationError"
    ELSE IF l.claims[p.claim_id] # "declared" THEN "ValidationError"
    ELSE "ok"

validate_evidence_added(l, p) ==
    IF l.claims[p.claim_id] = None THEN "ValidationError"
    ELSE IF l.claims[p.claim_id] \notin {"operationalized", "observing"}
         THEN "ValidationError"
    ELSE "ok"

\* _validate_claim_resolved without the loop over the cited evidence ids.
validate_claim_resolved_unchecked(l, p) ==
    IF l.claims[p.claim_id] = None THEN "ValidationError"
    ELSE IF l.claims[p.claim_id] = "resolved" THEN "ValidationError"
    ELSE IF l.claims[p.claim_id] \notin {"operationalized", "observing"}
         THEN "ValidationError"
    ELSE IF p.supporting_evidence_ids = <<>> THEN "ValidationError"
    ELSE "ok"

\* _validate_claim_resolved, lines 501-541.
validate_claim_resolved(l, p) ==
    IF l.claims[p.claim_id] = None THEN "ValidationError"
    ELSE IF l.claims[p.claim_id] = "resolved" THEN "ValidationError"
    ELSE IF l.claims[p.claim_id] \notin {"operationalized", "observing"}
         THEN "ValidationError"
    ELSE IF \E i \in 1 .. Len(p.supporting_evidence_ids) :
                ~Contains(l.claim_evidence[p.claim_id], p.supporting_evidence_ids[i])
         THEN "ValidationError"
    ELSE IF p.supporting_evidence_ids = <<>> THEN "ValidationError"
    ELSE "ok"

\* The checks each public operation makes before it creates its event.
Validate(l, o) ==
    CASE o.kind = "register_editor" -> validate_register_editor(l, o)
      [] o.kind = "deactivate_editor" -> validate_deactivate_editor(l, o)
      [] o.kind = "declare_claim" -> validate_claim_declared(l, o.payload)
      [] o.kind = "operationalize_claim" -> validate_claim_operationalized(l, o.payload)
      [] o.kind = "add_evidence" -> validate_evidence_added(l, o.payload)
      [] o.kind = "resolve_claim" -> validate_claim_resolved(l, o.payload)

\* The editor in whose name the event is signed (signing_editor_id).
SigningEditor(l, o) ==
    CASE o.kind = "register_editor" ->
           IF has_genesis_editor(l) THEN o.payload.by ELSE o.payload.editor_id
      [] o.kind = "deactivate_editor" -> o.payload.by
      [] OTHER -> o.editor

\* A caller submits operation o on thread w; the operation validates it.
Submit(w, o) ==
    /\ th[w].pc = "idle"
    /\ IF Validate(ledger, o) # "ok"
       THEN Return(w, Validate(ledger, o))
       ELSE th' = [th EXCEPT ![w].pc = "create_event",
                             ![w].op = [o EXCEPT !.editor = SigningEditor(ledger, o)],
                             ![w].target = IF o.kind = "deactivate_editor"
                                           THEN ledger.editors[o.payload.editor_id]
                                           ELSE NoEditor]
    /\ UNCHANGED <<store, ledger, anchor>>

\* Each thread serves OpsPerWriter requests.
Begin(w, o) ==
    /\ th[w].n < OpsPerWriter
    /\ Submit(w, o)

\* Requests received so far by all threads.
Started == Cardinality({w \in Writers : th[w].pc # "idle"})
           + th["w1"].n + th["w2"].n

\* The threads serve LongOps requests between them.
BeginLong(w, o) ==
    /\ Started < LongOps
    /\ Submit(w, o)

\* _create_event_internal, lines 574-578: the acting editor is validated
\* unless this is the genesis registration (skip_editor_validation is
\* evaluated when the call is made).  A request refused here stays on
\* record with its error.
CreateEvent(w) ==
    /\ th[w].pc = "create_event"
    /\ LET o == th[w].op
           skip == o.kind = "register_editor" /\ ~has_genesis_editor(ledger)
           check == IF skip THEN "ok" ELSE ValidateActingEditor(ledger, o.editor, {}, o.key)
       IN  IF check # "ok"
           THEN th' = [th EXCEPT ![w] = [Idle EXCEPT !.res = check, !.n = th[w].n + 1,
                                                     !.op = o]]
           ELSE Goto(w, "reserve_head")
    /\ UNCHANGED <<store, ledger, anchor>>

----------------------------------------------------------------------------
(* InMemoryEventStore: append scopes.                                      *)

\* _do_rollback: a scope that still holds the lock gives it up.  `releases`
\* counts the calls of Lock.release() made for the scope.
do_rollback(st, s) ==
    IF st.scopes[s].conn
    THEN [st EXCEPT !.scopes[s].conn = FALSE, !.scopes[s].releases = @ + 1,
                    !.lock = FALSE]
    ELSE st

\* Lock.release() of a lock that is not held raises RuntimeError.
ReleaseRaises(st, s) == st.scopes[s].conn /\ ~st.lock

\* begin_append, lines 377-379: the generator leaves its yield normally or is
\* closed.
GenFinally(st, s) ==
    LET done == IF ~st.scopes[s].committed /\ ~st.scopes[s].rolled_back
                THEN do_rollback(st, s) ELSE st
    IN  [done EXCEPT !.scopes[s].gen = "closed"]

\* begin_append, lines 373-379: an exception is thrown into the generator at
\* its yield.
GenExcept(st, s) ==
    GenFinally(IF ~st.scopes[s].committed THEN do_rollback(st, s) ELSE st, s)

\* The store after _legacy_ctx_gen stopped referring to scope g: a generator
\* suspended at its yield is closed, one never started is discarded.
Drop(st, g) ==
    IF g = NoScope \/ g = st.legacy_ctx_gen THEN st
    ELSE IF st.scopes[g].gen = "suspended" THEN GenFinally(st, g)
    ELSE IF st.scopes[g].gen = "created" THEN [st EXCEPT !.scopes[g].gen = "closed"]
    ELSE st

\* begin_append, lines 362-372, once the lock is free: take it, copy the head
\* into a new AppendContext, stop at the yield.
Opened(st, g) ==
    [st EXCEPT !.lock = TRUE, !.scopes[g].gen = "suspended", !.scopes[g].conn = TRUE,
               !.scopes[g].head = st.head]

\* reserve_head, line 292: self._legacy_ctx_gen = self.begin_append()
ReserveHead(w) ==
    /\ th[w].pc = "reserve_head"
    /\ LET s == store.nscopes + 1
           bound == [store EXCEPT !.nscopes = s, !.scopes[s] = NewScope,
                                  !.legacy_ctx_gen = s]
       IN  store' = Drop(bound, store.legacy_ctx_gen)
    /\ Goto(w, "enter")
    /\ UNCHANGED <<ledger, anchor>>

\* reserve_head, line 293: self._legacy_ctx_gen.__enter__() on whichever
\* context manager the attribute names now.  __enter__ works once per
\* context manager (it deletes the manager's args first); then it runs the
\* generator to its yield.
Enter(w) ==
    /\ th[w].pc = "enter"
    /\ LET g == store.legacy_ctx_gen
           marked == [store EXCEPT !.scopes[g].entered = TRUE]
       IN
       IF g = NoScope \/ store.scopes[g].entered
       THEN Return(w, "AttributeError") /\ UNCHANGED store
       ELSE CASE store.scopes[g].gen = "created" ->
                   /\ store' = [marked EXCEPT !.scopes[g].gen = "running"]
                   /\ th' = [th EXCEPT ![w].pc = "acquire", ![w].gen = g]
              [] store.scopes[g].gen = "running" ->
                   Return(w, "ValueError") /\ store' = marked
              [] store.scopes[g].gen = "suspended" ->
                   Return(w, "RuntimeError") /\ store' = GenFinally(marked, g)
              [] store.scopes[g].gen = "closed" ->
                   Return(w, "RuntimeError") /\ store' = marked
    /\ UNCHANGED <<ledger, anchor>>

\* __enter__ returns the context once the lock was free.  The caller's
\* reference to the context manager ends with the call.
Acquire(w) ==
    /\ th[w].pc = "acquire"
    /\ ~store.lock
    /\ LET g == th[w].gen
       IN  store' = Drop(Opened(store, g), g)
    /\ th' = [th EXCEPT ![w].pc = "set_ctx", ![w].ctx = th[w].gen, ![w].gen = NoScope]
    /\ UNCHANGED <<ledger, anchor>>

\* reserve_head, line 293: self._legacy_ctx = <the context yielded>
SetCtx(w) ==
    /\ th[w].pc = "set_ctx"
    /\ store' = [store EXCEPT !.legacy_ctx = th[w].ctx]
    /\ Goto(w, "read_head")
    /\ UNCHANGED <<ledger, anchor>>

\* reserve_head, line 294, then _create_event_internal, lines 587-629: the
\* head of whichever context the attribute names now; hash, sign, build.
ReadHead(w) ==
    /\ th[w].pc = "read_head"
    /\ LET c == store.legacy_ctx
           o == th[w].op
       IN  IF c = NoScope THEN Return(w, "AttributeError")
           ELSE LET head == store.scopes[c].head IN
                IF head.last_sequence + 1 # 0 /\ head.last_event_hash = NoHash
                THEN th' = [th EXCEPT ![w].pc = "rollback", ![w].err = "ChainError"]
                ELSE IF o.key = BadKey
                THEN th' = [th EXCEPT ![w].pc = "rollback", ![w].err = "binascii.Error"]
                ELSE th' = [th EXCEPT
                        ![w].pc = IF o.kind \in {"register_editor", "deactivate_editor"}
                                  THEN "update_editors" ELSE "commit_append",
                        ![w].head = head,
                        ![w].event = EventFor(o, head)]
    /\ UNCHANGED <<store, ledger, anchor>>

\* register_editor, lines 352-363, and deactivate_editor, lines 424-433: the
\* editor registry is written before the event is committed.
UpdateEditors(w) ==
    /\ th[w].pc = "update_editors"
    /\ LET p == th[w].op.payload IN
       IF th[w].op.kind = "register_editor"
       THEN ledger' = [ledger EXCEPT
                !.editors[p.editor_id] = RegisteredEditor(p.role, p.public_key, TRUE, p.by),
                !.public_key_to_editor[p.public_key] = p.editor_id]
       ELSE ledger' = [ledger EXCEPT
                !.editors[p.editor_id] = [th[w].target EXCEPT !.is_active = FALSE]]
    /\ Goto(w, "commit_append")
    /\ UNCHANGED <<store, anchor>>

\* commit_append, lines 307-311, AppendContext.commit, lines 160-163, and
\* _do_commit, lines 390-391: the context the attribute names now must be
\* fresh and must hold the lock.
CommitAppend(w) ==
    /\ th[w].pc = "commit_append"
    /\ LET c == store.legacy_ctx IN
       IF c = NoScope THEN Return(w, "EventStoreError")
       ELSE IF store.scopes[c].committed \/ store.scopes[c].rolled_back
                 \/ ~store.scopes[c].conn
       THEN th' = [th EXCEPT ![w].pc = "exit_exc", ![w].ctx = c,
                             ![w].err = "EventStoreError"]
       ELSE th' = [th EXCEPT ![w].pc = "do_commit", ![w].ctx = c]
    /\ UNCHANGED <<store, ledger, anchor>>

\* PostgresEventStore._do_commit, lines 672-707: "ok" or the error raised for
\* `event` when the head row reads `head`.
postgres_do_commit_check(head, event) ==
    IF event.sequence_number # head.last_sequence + 1 THEN "ConcurrencyError"
    ELSE IF head.last_sequence + 1 = 0 /\ event.previous_event_hash # NoHash
         THEN "ChainIntegrityError"
    ELSE IF head.last_sequence + 1 # 0 /\ event.previous_event_hash # head.last_event_hash
         THEN "ConcurrencyError"
    ELSE IF hash_event(event.payload, event.previous_event_hash) # event.event_hash
         THEN "ChainIntegrityError"
    ELSE "ok"

\* _do_commit's checks without the recomputation of the event hash.
do_commit_check_unhashed(head, event) ==
    IF event.sequence_number # head.last_sequence + 1 THEN "ChainIntegrityError"
    ELSE IF head.last_sequence + 1 = 0 /\ event.previous_event_hash # NoHash
         THEN "ChainIntegrityError"
    ELSE IF head.last_sequence + 1 # 0 /\ event.previous_event_hash # head.last_event_hash
         THEN "ChainIntegrityError"
    ELSE "ok"

\* _do_commit, lines 394-422: "ok" or the error raised for `event` on `head`.
do_commit_check(head, event) ==
    IF event.sequence_number # head.last_sequence + 1 THEN "ChainIntegrityError"
    ELSE IF head.last_sequence + 1 = 0 /\ event.previous_event_hash # NoHash
         THEN "ChainIntegrityError"
    ELSE IF head.last_sequence + 1 # 0 /\ event.previous_event_hash # head.last_event_hash
         THEN "ChainIntegrityError"
    ELSE IF hash_event(event.payload, event.previous_event_hash) # event.event_hash
         THEN "ChainIntegrityError"
    ELSE "ok"

DoCommit(w) ==
    /\ th[w].pc = "do_commit"
    /\ IF do_commit_check(store.head, th[w].event) = "ok"
       THEN Goto(w, "do_commit_append")
       ELSE th' = [th EXCEPT ![w].pc = "do_commit_finally",
                             ![w].err = do_commit_check(store.head, th[w].event)]
    /\ UNCHANGED <<store, ledger, anchor>>

\* _do_commit with the event put in front of the list instead of appended.
DoCommitInsert(w) ==
    /\ th[w].pc = "do_commit_append"
    /\ store' = [store EXCEPT !.events = <<th[w].event>> \o @]
    /\ Goto(w, "do_commit_head")
    /\ UNCHANGED <<ledger, anchor>>

\* _do_commit, line 425: self._events.append(event)
DoCommitAppend(w) ==
    /\ th[w].pc = "do_commit_append"
    /\ store' = [store EXCEPT !.events = Append(@, th[w].event)]
    /\ Goto(w, "do_commit_head")
    /\ UNCHANGED <<ledger, anchor>>

\* _do_commit, lines 426-429: self._head = ChainHead(...)
DoCommitHead(w) ==
    /\ th[w].pc = "do_commit_head"
    /\ store' = [store EXCEPT
           !.head = ChainHead(th[w].event.sequence_number, th[w].event.event_hash)]
    /\ Goto(w, "do_commit_finally")
    /\ UNCHANGED <<ledger, anchor>>

\* _do_commit, lines 433-435, and AppendContext.commit, line 166.
DoCommitFinally(w) ==
    /\ th[w].pc = "do_commit_finally"
    /\ LET c == th[w].ctx
           released == [store EXCEPT !.scopes[c].conn = FALSE,
                                     !.scopes[c].releases = @ + 1, !.lock = FALSE]
       IN
       IF ~store.lock
       THEN /\ store' = released
            /\ th' = [th EXCEPT ![w].pc = "exit_exc", ![w].err = "RuntimeError"]
       ELSE IF th[w].err # None
       THEN /\ store' = released
            /\ Goto(w, "exit_exc")
       ELSE /\ store' = [released EXCEPT !.scopes[c].committed = TRUE]
            /\ Goto(w, "exit")
    /\ UNCHANGED <<ledger, anchor>>

\* Where an exception of __exit__(None, None, None) goes: to commit_append's
\* handler, or (inside rollback, which has no handler) to the finally.
AfterExitError(w, error) ==
    th' = [th EXCEPT ![w].pc = IF th[w].err = None THEN "exit_exc" ELSE "clear",
                     ![w].err = error, ![w].gen = NoScope]

\* commit_append, line 312, and rollback, line 330:
\* self._legacy_ctx_gen.__exit__(None, None, None) on whichever generator the
\* attribute names now.
Exit(w) ==
    /\ th[w].pc = "exit"
    /\ LET g == store.legacy_ctx_gen IN
       IF g = NoScope THEN AfterExitError(w, "AttributeError") /\ UNCHANGED store
       ELSE CASE store.scopes[g].gen = "created" ->
                   /\ store' = [store EXCEPT !.scopes[g].gen = "running"]
                   /\ th' = [th EXCEPT ![w].pc = "exit_acquire", ![w].gen = g]
              [] store.scopes[g].gen = "running" ->
                   AfterExitError(w, "ValueError") /\ UNCHANGED store
              [] store.scopes[g].gen = "suspended" ->
                   /\ store' = GenFinally(store, g)
                   /\ IF ReleaseRaises(store, g) /\ ~store.scopes[g].committed
                           /\ ~store.scopes[g].rolled_back
                      THEN AfterExitError(w, "RuntimeError")
                      ELSE Goto(w, "clear")
              [] store.scopes[g].gen = "closed" ->
                   Goto(w, "clear") /\ UNCHANGED store
    /\ UNCHANGED <<ledger, anchor>>

\* __exit__(None, None, None) started a generator that had not run: it takes
\* the lock and yields, which __exit__ reports as "generator didn't stop".
ExitAcquire(w) ==
    /\ th[w].pc = "exit_acquire"
    /\ ~store.lock
    /\ store' = Drop(Opened(store, th[w].gen), th[w].gen)
    /\ AfterExitError(w, "RuntimeError")
    /\ UNCHANGED <<ledger, anchor>>

\* commit_append, lines 314-316: self._legacy_ctx_gen.__exit__(type(e), e, tb)
\* on whichever generator the attribute names now, then re-raise.
ExitExc(w) ==
    /\ th[w].pc = "exit_exc"
    /\ LET g == store.legacy_ctx_gen
           raise(error) == th' = [th EXCEPT ![w].pc = "clear", ![w].err = error]
       IN
       IF g = NoScope THEN raise("AttributeError") /\ UNCHANGED store
       ELSE CASE store.scopes[g].gen = "created" ->
                   /\ store' = [store EXCEPT !.scopes[g].gen = "closed"]
                   /\ raise(th[w].err)
              [] store.scopes[g].gen = "running" ->
                   raise("ValueError") /\ UNCHANGED store
              [] store.scopes[g].gen = "suspended" ->
                   /\ store' = GenExcept(store, g)
                   /\ IF ReleaseRaises(store, g) /\ ~store.scopes[g].committed
                      THEN raise("RuntimeError")
                      ELSE raise(th[w].err)
              [] store.scopes[g].gen = "closed" ->
                   raise(th[w].err) /\ UNCHANGED store
    /\ UNCHANGED <<ledger, anchor>>

\* commit_append, lines 317-319, and rollback, lines 331-333: both
\* attributes are reset; then the call returns or raises.
Clear(w) ==
    /\ th[w].pc = "clear"
    /\ store' = Drop([store EXCEPT !.legacy_ctx = NoScope, !.legacy_ctx_gen = NoScope],
                     store.legacy_ctx_gen)
    /\ IF th[w].err = None THEN Goto(w, "update_cache") ELSE Return(w, th[w].err)
    /\ UNCHANGED <<ledger, anchor>>

\* EventStore.rollback, lines 327-329, called by _create_event_internal when
\* building the event failed: AppendContext.rollback on the context the
\* attribute names now.
Rollback(w) ==
    /\ th[w].pc = "rollback"
    /\ LET c == store.legacy_ctx IN
       IF c = NoScope THEN Return(w, th[w].err) /\ UNCHANGED store
       ELSE IF store.scopes[c].committed \/ store.scopes[c].rolled_back
       THEN Goto(w, "exit") /\ UNCHANGED store
       ELSE IF ReleaseRaises(store, c)
       THEN /\ store' = do_rollback(store, c)
            /\ th' = [th EXCEPT ![w].pc = "clear", ![w].err = "RuntimeError"]
       ELSE /\ store' = [do_rollback(store, c) EXCEPT !.scopes[c].rolled_back = TRUE]
            /\ Goto(w, "exit")
    /\ UNCHANGED <<ledger, anchor>>

----------------------------------------------------------------------------
(* LedgerService: projections after the commit.                            *)

\* _append_event, lines 741-743, then the caller's own update
\* (declare_claim 774-775, operationalize_claim 802, add_evidence 832-836,
\* resolve_claim 864).
update_cache(l, o, event) ==
    LET p == o.payload
        cached == [l EXCEPT !.events = Append(@, event),
                            !.last_hash = event.event_hash,
                            !.next_sequence = event.sequence_number + 1]
    IN  CASE o.kind = "declare_claim" ->
               [cached EXCEPT !.claims[p.claim_id] = "declared",
                              !.claim_evidence[p.claim_id] = <<>>]
          [] o.kind = "operationalize_claim" ->
               [cached EXCEPT !.claims[p.claim_id] = "operationalized"]
          [] o.kind = "add_evidence" ->
               [cached EXCEPT !.claim_evidence[p.claim_id] = Append(@, p.evidence_id),
                              !.claims[p.claim_id] =
                                  IF @ = "operationalized" THEN "observing" ELSE @]
          [] o.kind = "resolve_claim" ->
               [cached EXCEPT !.claims[p.claim_id] = "resolved"]
          [] OTHER -> cached

UpdateCache(w) ==
    /\ th[w].pc = "update_cache"
    /\ ledger' = update_cache(ledger, th[w].op, th[w].event)
    /\ th' = [th EXCEPT ![w] = [Idle EXCEPT !.res = "ok", !.n = th[w].n + 1,
                                            !.op = th[w].op]]
    /\ UNCHANGED <<store, anchor>>

----------------------------------------------------------------------------

Step(w) ==
    \/ \E o \in Operations : Begin(w, o)
    \/ CreateEvent(w)
    \/ ReserveHead(w)
    \/ Enter(w)
    \/ Acquire(w)
    \/ SetCtx(w)
    \/ ReadHead(w)
    \/ UpdateEditors(w)
    \/ CommitAppend(w)
    \/ DoCommit(w)
    \/ DoCommitAppend(w)
    \/ DoCommitHead(w)
    \/ DoCommitFinally(w)
    \/ Exit(w)
    \/ ExitAcquire(w)
    \/ ExitExc(w)
    \/ Clear(w)
    \/ Rollback(w)
    \/ UpdateCache(w)

Next == \E w \in Writers : Step(w)

Spec == Init /\ [][Next]_vars

\* Claim traffic on the established ledger.  No editor can be registered or
\* deactivated there and every accepted key can sign, so the registry is
\* never written and no event fails to build.
StepLong(w) ==
    \/ \E o \in LongOperations : BeginLong(w, o)
    \/ CreateEvent(w)
    \/ ReserveHead(w)
    \/ Enter(w)
    \/ Acquire(w)
    \/ SetCtx(w)
    \/ ReadHead(w)
    \/ CommitAppend(w)
    \/ DoCommit(w)
    \/ DoCommitAppend(w)
    \/ DoCommitHead(w)
    \/ DoCommitFinally(w)
    \/ Exit(w)
    \/ ExitAcquire(w)
    \/ ExitExc(w)
    \/ Clear(w)
    \/ UpdateCache(w)

NextLong == \E w \in Writers : StepLong(w)

SpecLong == InitLong /\ [][NextLong]_vars

\* Registry traffic on a ledger that holds its genesis event only: admin e1
\* registers e2 as an admin and deactivates e2, and e2 declares claims.
\* Every key offered can sign, so no event fails to build.
EditorOperations ==
    {o \in Operations :
        \/ /\ o.kind \in {"register_editor", "deactivate_editor"}
           /\ o.payload.editor_id = "e2" /\ o.payload.role \in {"admin", None}
           /\ o.payload.by = "e1" /\ o.key = "k1"
        \/ /\ o.kind = "declare_claim"
           /\ o.editor = "e2" /\ o.key = "k2"}

InitEditors == Start(ChainOf(SubSeq(History, 1, 1)))

StepEditors(w) ==
    \/ \E o \in EditorOperations : BeginLong(w, o)
    \/ CreateEvent(w)
    \/ ReserveHead(w)
    \/ Enter(w)
    \/ Acquire(w)
    \/ SetCtx(w)
    \/ ReadHead(w)
    \/ UpdateEditors(w)
    \/ CommitAppend(w)
    \/ DoCommit(w)
    \/ DoCommitAppend(w)
    \/ DoCommitHead(w)
    \/ DoCommitFinally(w)
    \/ Exit(w)
    \/ ExitAcquire(w)
    \/ ExitExc(w)
    \/ Clear(w)
    \/ UpdateCache(w)

NextEditors == \E w \in Writers : StepEditors(w)

SpecEditors == InitEditors /\ [][NextEditors]_vars

\* Callers of the store's own interface (reserve_head, then commit_append
\* with an event of their making): the event is the one LedgerService would
\* build, or differs from it in its sequence number, its previous hash or
\* its hash.
Faults == {"none", "sequence", "previous", "hash"}

Tamper(event, fault) ==
    CASE fault = "sequence" -> [event EXCEPT !.sequence_number = @ + 1]
      [] fault = "previous" ->
           [event EXCEPT !.previous_event_hash = <<NoPayload>>,
                         !.event_hash = hash_event(event.payload, <<NoPayload>>)]
      [] fault = "hash" -> [event EXCEPT !.event_hash = <<NoPayload>>]
      [] OTHER -> event

StoreOperations == {ByE1("declare_claim", ClaimDeclaredPayload(c)) : c \in ClaimIds}

InitStore == \E n \in {0, 1} : Start(ChainOf(SubSeq(History, 1, n)))

\* The caller starts with reserve_head.
StoreBegin(w, o) ==
    /\ th[w].pc = "idle"
    /\ th[w].n < OpsPerWriter
    /\ th' = [th EXCEPT ![w].pc = "reserve_head", ![w].op = o]
    /\ UNCHANGED <<store, ledger, anchor>>

\* reserve_head, line 294: the head of whichever context the attribute names
\* now; then the caller makes its event.
StoreReadHead(w, fault) ==
    /\ th[w].pc = "read_head"
    /\ LET c == store.legacy_ctx IN
       IF c = NoScope THEN Return(w, "AttributeError")
       ELSE th' = [th EXCEPT
                ![w].pc = "commit_append",
                ![w].head = store.scopes[c].head,
                ![w].event = Tamper(EventFor(th[w].op, store.scopes[c].head), fault)]
    /\ UNCHANGED <<store, ledger, anchor>>

StepStore(w) ==
    \/ \E o \in StoreOperations : StoreBegin(w, o)
    \/ ReserveHead(w)
    \/ Enter(w)
    \/ Acquire(w)
    \/ SetCtx(w)
    \/ \E fault \in Faults : StoreReadHead(w, fault)
    \/ CommitAppend(w)
    \/ DoCommit(w)
    \/ DoCommitAppend(w)
    \/ DoCommitHead(w)
    \/ DoCommitFinally(w)
    \/ Exit(w)
    \/ ExitAcquire(w)
    \/ ExitExc(w)
    \/ Clear(w)
    \/ UpdateCache(w)

NextStore == \E w \in Writers : StepStore(w)

SpecStore == InitStore /\ [][NextStore]_vars

----------------------------------------------------------------------------
(* Claims about the committed log.                                         *)

Committed == store.events

Positions == 1 .. Len(Committed)

\* C1: the committed events have the sequence numbers 0 .. N-1, each exactly
\* once, whatever the interleaving of the writers.
C1_SequenceNumbersExact ==
    \A k \in 0 .. Len(Committed) - 1 :
        Cardinality({i \in Positions : Committed[i].sequence_number = k}) = 1

\* C2: previous_event_hash is absent exactly at sequence number 0, and an
\* event with sequence number k > 0 carries the event_hash of the committed
\* event with sequence number k-1.
C2_PreviousHashLinked ==
    \A i \in Positions :
        LET e == Committed[i] IN
        /\ (e.previous_event_hash = NoHash) <=> (e.sequence_number = 0)
        /\ e.sequence_number > 0 =>
              /\ \E j \in Positions : Committed[j].sequence_number = e.sequence_number - 1
              /\ \A j \in Positions :
                    Committed[j].sequence_number = e.sequence_number - 1
                        => Committed[j].event_hash = e.previous_event_hash

----------------------------------------------------------------------------
(* Claims about append scopes.                                             *)

\* Writer w was given a head and has not finished its commit.
InScope(w) ==
    th[w].pc \in {"update_editors", "commit_append", "do_commit", "do_commit_append",
                  "do_commit_head"}

\* C3: while a writer is between obtaining head H and the end of its commit,
\* no other writer is, and the head it meets in the commit is H.
C3_ExclusiveHead ==
    /\ \A w1, w2 \in Writers : InScope(w1) /\ InScope(w2) => w1 = w2
    /\ \A w \in Writers : th[w].pc = "do_commit" => store.head = th[w].head

Quiescent == \A w \in Writers : th[w].pc = "idle"

\* C4: a scope calls release at most once, a closed scope that took the lock
\* called it exactly once, and the lock is free when no operation runs (so a
\* later begin_append acquires it).
C4_LockReleasedOnce ==
    /\ \A s \in Scopes : store.scopes[s].releases <= 1
    /\ \A s \in Scopes :
          store.scopes[s].gen = "closed" /\ store.scopes[s].head # EmptyHead
              => store.scopes[s].releases = 1
    /\ Quiescent => ~store.lock

\* C5: when no append is in progress the head is (-1, absent) on an empty
\* log and otherwise names the last committed event.
C5_HeadIsLastEvent ==
    Quiescent => store.head = HeadOf(Committed)

----------------------------------------------------------------------------
(* Claims about the claim lifecycle.                                       *)

\* Positions of the committed events of type t about claim c.
EventsOf(t, c) ==
    {i \in Positions : Committed[i].event_type = t /\ Committed[i].payload.claim_id = c}

\* C6: each claim in the log has exactly one CLAIM_DECLARED, at most one
\* CLAIM_OPERATIONALIZED and at most one CLAIM_RESOLVED event.
C6_OneEventPerStage ==
    \A c \in ClaimIds :
        (\E i \in Positions : Committed[i].payload.claim_id = c) =>
            /\ Cardinality(EventsOf("CLAIM_DECLARED", c)) = 1
            /\ Cardinality(EventsOf("CLAIM_OPERATIONALIZED", c)) <= 1
            /\ Cardinality(EventsOf("CLAIM_RESOLVED", c)) <= 1

\* The status of claim c after the first n committed events.
StatusAt(c, n) == load_from_events(SubSeq(Committed, 1, n)).claims[c]

\* The statuses from which an event of type t is a legal transition.
LegalFrom(t) ==
    CASE t = "CLAIM_DECLARED" -> {None}
      [] t = "CLAIM_OPERATIONALIZED" -> {"declared"}
      [] t = "EVIDENCE_ADDED" -> {"operationalized", "observing"}
      [] t = "CLAIM_RESOLVED" -> {"operationalized", "observing"}
      [] OTHER -> {}

ClaimEventTypes ==
    {"CLAIM_DECLARED", "CLAIM_OPERATIONALIZED", "EVIDENCE_ADDED", "CLAIM_RESOLVED"}

\* C7: every committed claim event is a legal transition from the state its
\* claim had in the log before it.
C7_LegalTransitionsOnly ==
    \A i \in Positions :
        Committed[i].event_type \in ClaimEventTypes =>
            StatusAt(Committed[i].payload.claim_id, i - 1)
                \in LegalFrom(Committed[i].event_type)

LifecycleKinds == {"declare_claim", "operationalize_claim", "resolve_claim"}

\* C8: two writers never both succeed with the same lifecycle event for the
\* same claim.
C8_NoDoubleLifecycleCommit ==
    \A w1, w2 \in Writers :
        /\ w1 # w2
        /\ th[w1].pc = "idle" /\ th[w1].res = "ok"
        /\ th[w2].pc = "idle" /\ th[w2].res = "ok"
        /\ th[w1].op.kind \in LifecycleKinds
        => ~(th[w1].op.kind = th[w2].op.kind
             /\ th[w1].op.payload.claim_id = th[w2].op.payload.claim_id)

\* C9: every committed CLAIM_RESOLVED event cites at least one evidence id,
\* and each id it cites was attached to the same claim by an EVIDENCE_ADDED
\* event committed before it.
C9_ResolutionCitesAttachedEvidence ==
    \A i \in Positions :
        Committed[i].event_type = "CLAIM_RESOLVED" =>
            LET p == Committed[i].payload IN
            /\ p.supporting_evidence_ids # <<>>
            /\ \A n \in 1 .. Len(p.supporting_evidence_ids) :
                  \E j \in 1 .. i - 1 :
                      /\ Committed[j].event_type = "EVIDENCE_ADDED"
                      /\ Committed[j].payload.claim_id = p.claim_id
                      /\ Committed[j].payload.evidence_id = p.supporting_evidence_ids[n]

\* A writer's resolve_claim has returned its event.
C9_ResolutionAccepted ==
    \E w \in Writers :
        th[w].pc = "idle" /\ th[w].res = "ok" /\ th[w].op.kind = "resolve_claim"

----------------------------------------------------------------------------
(* Claims about editors.                                                   *)

\* C10: the creator of every committed event but the first was registered by
\* an event with a smaller sequence number and deactivated by none.
C10_CreatorRegisteredAndActive ==
    \A i \in Positions :
        i > 1 =>
            LET e == Committed[i] IN
            /\ \E j \in Positions :
                  /\ Committed[j].event_type = "EDITOR_REGISTERED"
                  /\ Committed[j].payload.editor_id = e.created_by
                  /\ Committed[j].sequence_number < e.sequence_number
            /\ ~\E j \in Positions :
                  /\ Committed[j].event_type = "EDITOR_DEACTIVATED"
                  /\ Committed[j].payload.editor_id = e.created_by
                  /\ Committed[j].sequence_number < e.sequence_number

\* C11: the signature of every committed event verifies, as a signature over
\* the event's hash, against the public key that the log registers for the
\* editor who created the event.
C11_SignatureVerifies ==
    \A i \in Positions :
        \E j \in Positions :
            /\ Committed[j].event_type = "EDITOR_REGISTERED"
            /\ Committed[j].payload.editor_id = Committed[i].created_by
            /\ verify(Committed[i].event_hash, Committed[i].editor_signature,
                      Committed[j].payload.public_key)

\* The private key presented with operation o belongs to the public key
\* registered for the editor in whose name o acts.
KeyMatches(l, o) ==
    /\ l.editors[o.editor].present
    /\ o.key = l.editors[o.editor].public_key

\* A registration with registered_by absent.
SelfRegistration(o) == o.kind = "register_editor" /\ o.payload.by = None

\* C12: once an editor is registered, an operation is let through to the
\* store only with the private key of its acting editor, and one that
\* reaches the editor check with another key ends with EditorError and the
\* store as it was.
C12_WrongKeyRejected ==
    [][\A w \in Writers :
          /\ (th'[w].pc \notin {"idle", "create_event"} /\ ~SelfRegistration(th'[w].op))
                => KeyMatches(ledger', th'[w].op)
          /\ (/\ th[w].pc = "create_event"
              /\ th'[w].pc # "create_event"
              /\ has_genesis_editor(ledger)
              /\ ~KeyMatches(ledger, th[w].op))
                => /\ th'[w].pc = "idle"
                   /\ th'[w].res = "EditorError"
                   /\ store' = store]_vars

\* An operation by an active editor was refused because of its key.
C12_WrongKeyRefused ==
    \E w \in Writers :
        /\ th[w].pc = "idle"
        /\ th[w].res = "EditorError"
        /\ th[w].op.kind \in {"declare_claim", "add_evidence"}
        /\ validate_editor_for_action(ledger, th[w].op.editor, {}) = "ok"
        /\ ~KeyMatches(ledger, th[w].op)

\* C13: no two EDITOR_REGISTERED events of the log name the same editor_id
\* or the same public key, and no two registered editors have the same
\* public key.
C13_EditorIdAndKeyUnique ==
    /\ \A i, j \in Positions :
          /\ i # j
          /\ Committed[i].event_type = "EDITOR_REGISTERED"
          /\ Committed[j].event_type = "EDITOR_REGISTERED"
          => /\ Committed[i].payload.editor_id # Committed[j].payload.editor_id
             /\ Committed[i].payload.public_key # Committed[j].payload.public_key
    /\ \A e1, e2 \in Editors :
          /\ e1 # e2
          /\ ledger.editors[e1].present
          /\ ledger.editors[e2].present
          => ledger.editors[e1].public_key # ledger.editors[e2].public_key

\* C14: every EDITOR_REGISTERED event but the first of the log, and every
\* EDITOR_DEACTIVATED event, was created by an editor whom an earlier event
\* registered with role admin and whom no earlier event deactivated.
C14_RegistryChangesByActiveAdmin ==
    \A i \in Positions :
        (\/ Committed[i].event_type = "EDITOR_REGISTERED" /\ i > 1
         \/ Committed[i].event_type = "EDITOR_DEACTIVATED")
        => /\ \E j \in 1 .. i - 1 :
                 /\ Committed[j].event_type = "EDITOR_REGISTERED"
                 /\ Committed[j].payload.editor_id = Committed[i].created_by
                 /\ Committed[j].payload.role = "admin"
           /\ ~\E j \in 1 .. i - 1 :
                 /\ Committed[j].event_type = "EDITOR_DEACTIVATED"
                 /\ Committed[j].payload.editor_id = Committed[i].created_by

\* C15: a registration with registered_by absent is in the log only as its
\* first event, with sequence number 0, and a log that is not empty starts
\* with one.
C15_OneSelfRegistration ==
    /\ \A i \in Positions :
          (Committed[i].event_type = "EDITOR_REGISTERED" /\ Committed[i].payload.by = None)
          => (i = 1 /\ Committed[i].sequence_number = 0)
    /\ Committed # <<>> =>
          (Committed[1].event_type = "EDITOR_REGISTERED" /\ Committed[1].payload.by = None)

\* The editors for whom the log holds an EDITOR_DEACTIVATED event.
DeactivatedInLog ==
    {Committed[i].payload.editor_id :
        i \in {j \in Positions : Committed[j].event_type = "EDITOR_DEACTIVATED"}}

\* C16: an editor whose deactivation is committed is inactive in the registry
\* from then on, and no operation in that editor's name is let through to
\* the store after it.
C16_DeactivationIsTerminal ==
    [][\A e \in DeactivatedInLog :
          /\ ~ledger.editors[e].is_active
          /\ ~ledger'.editors[e].is_active
          /\ \A w \in Writers :
                (th[w].pc = "create_event" /\ th[w].op.editor = e)
                    => th'[w].pc \in {"create_event", "idle"}]_vars

\* C17: a ledger that has registered an editor has an active admin.
C17_ActiveAdminRemains ==
    has_genesis_editor(ledger) => ActiveAdmins(ledger) # {}

----------------------------------------------------------------------------
(* Claims about the projections and the store.                             *)

\* The log holds an event of type `type` whose payload satisfies Test.
InLog(type, Test(_)) ==
    \E i \in Positions : Committed[i].event_type = type /\ Test(Committed[i].payload)

\* C18: the projections hold nothing but what committed events put there: a
\* registered editor has its EDITOR_REGISTERED event, an inactive one its
\* EDITOR_DEACTIVATED event, a claim the event that gave it its status, and a
\* piece of evidence its EVIDENCE_ADDED event.
C18_ProjectionsFollowCommits ==
    /\ \A e \in Editors :
          /\ ledger.editors[e].present =>
                LET Reg(p) == p.editor_id = e IN InLog("EDITOR_REGISTERED", Reg)
          /\ (ledger.editors[e].present /\ ~ledger.editors[e].is_active) =>
                LET Deact(p) == p.editor_id = e IN InLog("EDITOR_DEACTIVATED", Deact)
    /\ \A c \in ClaimIds :
          LET Of(p) == p.claim_id = c IN
          /\ ledger.claims[c] # None => InLog("CLAIM_DECLARED", Of)
          /\ ledger.claims[c] \in {"operationalized", "observing", "resolved"}
                => InLog("CLAIM_OPERATIONALIZED", Of)
          /\ ledger.claims[c] = "observing" => InLog("EVIDENCE_ADDED", Of)
          /\ ledger.claims[c] = "resolved" => InLog("CLAIM_RESOLVED", Of)
          /\ \A n \in 1 .. Len(ledger.claim_evidence[c]) :
                LET Ev(p) == p.claim_id = c /\ p.evidence_id = ledger.claim_evidence[c][n]
                IN  InLog("EVIDENCE_ADDED", Ev)

\* The event does not continue the chain at `head`, or its hash is not the
\* hash of its payload and previous hash.
Mismatch(head, event) ==
    \/ event.sequence_number # head.last_sequence + 1
    \/ event.previous_event_hash # head.last_event_hash
    \/ event.event_hash # hash_event(event.payload, event.previous_event_hash)

\* C19: a commit of an event that does not fit the head, or whose hash is
\* wrong, raises ChainIntegrityError without touching the store; when the
\* commit has ended, events and head are as they were, the lock is free, and
\* the caller gets an error.
C19_BadCommitRejected ==
    [][\A w \in Writers :
          /\ (/\ th[w].pc = "do_commit"
              /\ th'[w].pc # "do_commit"
              /\ Mismatch(store.head, th[w].event))
                => /\ th'[w].pc = "do_commit_finally"
                   /\ th'[w].err = "ChainIntegrityError"
                   /\ store' = store
          /\ (/\ th[w].pc = "do_commit_finally"
              /\ th'[w].pc # "do_commit_finally"
              /\ th[w].err = "ChainIntegrityError")
                => /\ store'.events = store.events
                   /\ store'.head = store.head
                   /\ ~store'.lock
                   /\ th'[w].err # None
          /\ (th[w].pc # "idle" /\ th'[w].pc = "idle" /\ th[w].err # None)
                => th'[w].res \notin {"ok", None}]_vars

\* A commit of an event with a wrong hash has been rejected.
C19_WrongHashRejected ==
    \E w \in Writers :
        /\ th[w].pc = "exit_exc"
        /\ th[w].err = "ChainIntegrityError"
        /\ th[w].event.sequence_number = store.head.last_sequence + 1
        /\ th[w].event.previous_event_hash = store.head.last_event_hash
        /\ th[w].event.event_hash
               # hash_event(th[w].event.payload, th[w].event.previous_event_hash)
        /\ ~store.lock

IsPrefix(s, t) == Len(s) <= Len(t) /\ SubSeq(t, 1, Len(s)) = s

\* C20: every step leaves the events the store holds in place, adding at the
\* end only, and the event of a commit that returned is in the store.
C20_EventsAppendOnly ==
    [][/\ IsPrefix(store.events, store'.events)
       /\ \A w \in Writers :
             th'[w].pc = "update_cache" => Contains(store'.events, th'[w].event)]_vars

\* Two commits have returned, one after the other, and both events are in
\* the store.
C20_BothEventsKept ==
    /\ \A w \in Writers : th[w].pc = "idle" /\ th[w].res = "ok"
    /\ \E i, j \in Positions :
          /\ i < j
          /\ Committed[i].payload = th["w1"].op.payload
          /\ Committed[j].payload = th["w2"].op.payload

\* C21: for the commit of the same event on the same head the in-memory
\* store and the Postgres store give the same answer: both accept, or both
\* raise the same kind of error.
C21_StoresAgree ==
    \A w \in Writers :
        th[w].pc = "do_commit" =>
            do_commit_check(store.head, th[w].event)
                = postgres_do_commit_check(store.head, th[w].event)


\* InMemoryEventStore.list_all: the events sorted by sequence_number (a stable
\* sort, so events with one sequence number keep their order of arrival).
RECURSIVE SortedFrom(_, _)
SortedFrom(events, k) ==
    IF k > Len(events) + 1 THEN <<>>
    ELSE LET HasK(e) == e.sequence_number = k
         IN  SelectSeq(events, HasK) \o SortedFrom(events, k + 1)

list_all(st) == SortedFrom(st.events, 0)

\* LedgerService.load_from_store without the verification pass: the replay of
\* everything the store holds.
load_from_store(st) == load_from_events(list_all(st))

\* C22: when no operation is in progress, the ledger rebuilt from the committed
\* events has the same editors (with role and active flag), the same status of
\* every claim and the same evidence attachments as the live service.
C22_RebuildEqualsLive ==
    Quiescent =>
        LET rebuilt == load_from_store(store) IN
        /\ \A e \in Editors :
              /\ rebuilt.editors[e].present = ledger.editors[e].present
              /\ rebuilt.editors[e].role = ledger.editors[e].role
              /\ rebuilt.editors[e].is_active = ledger.editors[e].is_active
        /\ \A c \in ClaimIds :
              /\ rebuilt.claims[c] = ledger.claims[c]
              /\ rebuilt.claim_evidence[c] = ledger.claim_evidence[c]

\* LedgerService.verify_chain_integrity, the loop from the event at position i
\* on: prev_hash is the hash of the event before it, and the expected sequence
\* number is i - 1.  The result is what the call returns, or the exception
\* that hash_event raises.
RECURSIVE VerifyFrom(_, _, _)
VerifyFrom(events, i, prev_hash) ==
    IF i > Len(events) THEN "True"
    ELSE LET event == events[i]
             expected_sequence == i - 1
         IN  IF event.sequence_number # expected_sequence THEN "False"
             ELSE IF expected_sequence = 0 /\ event.previous_event_hash # NoHash THEN "False"
             ELSE IF expected_sequence # 0 /\ event.previous_event_hash = NoHash THEN "False"
             ELSE IF ~Canonicalizable(event.payload) THEN "CanonicalSerializationError"
             ELSE IF hash_event(event.payload, prev_hash) # event.event_hash THEN "False"
             ELSE IF event.previous_event_hash # prev_hash THEN "False"
             ELSE VerifyFrom(events, i + 1, event.event_hash)

verify_chain_integrity(l) == VerifyFrom(l.events, 1, NoHash)

\* C23: verify_chain_integrity() of the live service returns true in every
\* reachable state.
C23_ChainIntegrityHolds == verify_chain_integrity(ledger) = "True"

----------------------------------------------------------------------------
(* Start-up on a store whose rows were edited behind the service.          *)

\* LedgerService._verify_event_chain, the loop from the event at position i
\* on: "ok" when it returns, else the exception it raises.  (Step 5,
\* validate_chain_rules, repeats the genesis rule of step 2 for an event
\* whose sequence number passed step 1.)
RECURSIVE VerifyChainFrom(_, _, _)
VerifyChainFrom(events, i, prev_hash) ==
    IF i > Len(events) THEN "ok"
    ELSE LET event == events[i]
             expected_sequence == i - 1
         IN  IF event.sequence_number # expected_sequence THEN "ChainError"
             ELSE IF expected_sequence = 0 /\ event.previous_event_hash # NoHash THEN "ChainError"
             ELSE IF expected_sequence # 0 /\ event.previous_event_hash = NoHash THEN "ChainError"
             ELSE IF event.previous_event_hash # prev_hash THEN "ChainError"
             ELSE IF ~Canonicalizable(event.payload) THEN "CanonicalSerializationError"
             ELSE IF hash_event(event.payload, prev_hash) # event.event_hash THEN "ChainError"
             ELSE VerifyChainFrom(events, i + 1, event.event_hash)

\* The same loop without step 4, the recomputation of the hash.
RECURSIVE VerifyChainFromUnhashed(_, _, _)
VerifyChainFromUnhashed(events, i, prev_hash) ==
    IF i > Len(events) THEN "ok"
    ELSE LET event == events[i]
             expected_sequence == i - 1
         IN  IF event.sequence_number # expected_sequence THEN "ChainError"
             ELSE IF expected_sequence = 0 /\ event.previous_event_hash # NoHash THEN "ChainError"
             ELSE IF expected_sequence # 0 /\ event.previous_event_hash = NoHash THEN "ChainError"
             ELSE IF event.previous_event_hash # prev_hash THEN "ChainError"
             ELSE VerifyChainFromUnhashed(events, i + 1, event.event_hash)

verify_event_chain_unhashed(events) == VerifyChainFromUnhashed(events, 1, NoHash)

verify_event_chain(events) == VerifyChainFrom(events, 1, NoHash)


\* The thread that starts the service.
Loader == "w1"

\* The columns of a stored event that an edit of one row may change.
Fields ==
    {"payload", "event_hash", "previous_event_hash", "sequence_number",
     "editor_signature", "created_by"}

\* Edited payloads: a key that held None is dropped, or given a float or a
\* string; the claim or the editor the payload names is exchanged for
\* another one.
TamperedPayloads(p) ==
    {[p EXCEPT ![key] = v] :
        key \in {k \in ScalarKeys \ {"by"} : p[k] = None},
        v \in {Absent, Float, "tampered"}}
    \cup (IF p.by = None THEN {[p EXCEPT !.by = Absent]} ELSE {})
    \cup {[p EXCEPT !.claim_id = c] :
            c \in IF p.claim_id = None THEN {} ELSE ClaimIds \ {p.claim_id}}
    \cup {[p EXCEPT !.editor_id = e] :
            e \in IF p.editor_id = None THEN {} ELSE Editors \ {p.editor_id}}

TamperedValues(events, i, field) ==
    CASE field = "payload" -> TamperedPayloads(events[i].payload)
      [] field = "event_hash" ->
           {events[j].event_hash : j \in 1 .. Len(events)} \cup {<<NoPayload>>}
      [] field = "previous_event_hash" ->
           {events[j].event_hash : j \in 1 .. Len(events)} \cup {NoHash}
      [] field = "sequence_number" -> 0 .. Len(events)
      [] field = "editor_signature" ->
           {sign(events[i].event_hash, key) : key \in PrivateKeys}
      [] field = "created_by" -> Editors

\* The store holds `chain`; no LedgerService has been built yet.
StartUp(chain) ==
    /\ store = [events |-> chain, head |-> HeadOf(chain), lock |-> FALSE,
                legacy_ctx |-> NoScope, legacy_ctx_gen |-> NoScope,
                scopes |-> [s \in Scopes |-> NewScope], nscopes |-> 0]
    /\ ledger = EmptyLedger
    /\ th = [w \in Writers |-> Idle]
    /\ anchor = EmptyAnchor

\* Rows written by someone with access to the database: a chain whose hashes
\* link, in which e1 deactivates an editor that was never registered.
ForgedChains ==
    {ChainOf(<<Genesis, ByE1("deactivate_editor", EditorDeactivatedPayload("e2", "e1"))>>)}

InitTamper == \E chain \in SeedChains \cup ForgedChains : StartUp(chain)

\* Someone with access to the rows gives one field of event i another value;
\* the thread keeps the row as it was.
TamperEvent(w, i, field, v) ==
    /\ th[w].pc = "idle"
    /\ i \in 1 .. Len(store.events)
    /\ v \in TamperedValues(store.events, i, field) \ {store.events[i][field]}
    /\ store' = [store EXCEPT !.events[i][field] = v]
    /\ th' = [th EXCEPT ![w].pc = "tampered",
                        ![w].op = Op(field, NoPayload, None, None),
                        ![w].event = store.events[i]]
    /\ UNCHANGED <<ledger, anchor>>

\* LedgerService.load_from_store(store, verify): the events in sequence
\* order, the verification pass when asked for, then the replay.  When the
\* pass raises, no service is built.
LoadFromStore(w, verify_flag) ==
    /\ th[w].pc \in {"idle", "tampered"}
    /\ LET events == list_all(store)
           result == IF verify_flag THEN verify_event_chain(events) ELSE "ok"
       IN  /\ ledger' = IF result = "ok" THEN load_from_events(events) ELSE ledger
           /\ th' = [th EXCEPT ![w].pc = IF verify_flag THEN "loaded_verified" ELSE "loaded",
                               ![w].res = result]
    /\ UNCHANGED <<store, anchor>>

\* verify_chain_integrity() on the service that was built.
VerifyChainIntegrity(w) ==
    /\ th[w].pc \in {"loaded", "loaded_verified"}
    /\ th[w].res = "ok"
    /\ th' = [th EXCEPT ![w].pc = "checked", ![w].res = verify_chain_integrity(ledger)]
    /\ UNCHANGED <<store, ledger, anchor>>

StepTamper(w) ==
    \/ \E i \in 1 .. Len(store.events), field \in Fields :
          \E v \in TamperedValues(store.events, i, field) : TamperEvent(w, i, field, v)
    \/ \E verify_flag \in BOOLEAN : LoadFromStore(w, verify_flag)
    \/ VerifyChainIntegrity(w)

NextTamper == StepTamper(Loader)

SpecTamper == InitTamper /\ [][NextTamper]_vars

\* The row the edit changed, before and after.
EditedField == th[Loader].op.kind
RowBefore == th[Loader].event
RowAfter == store.events[RowBefore.sequence_number + 1]

\* The verified load raised ChainError and built nothing; the integrity check
\* of a service loaded without verification returned false.
Detected ==
    /\ th[Loader].pc = "loaded_verified" =>
          th[Loader].res = "ChainError" /\ ledger = EmptyLedger
    /\ th[Loader].pc = "checked" => th[Loader].res = "False"

ChainFields == {"payload", "event_hash", "previous_event_hash", "sequence_number"}

CanonicalFormChanged ==
    /\ Canonicalizable(RowAfter.payload)
    /\ canonicalize(RowAfter.payload) # canonicalize(RowBefore.payload)

RegistryAt(events, i) ==
    IF events[i].event_type = "EDITOR_REGISTERED"
    THEN load_from_events(SubSeq(events, 1, i)).editors
    ELSE load_from_events(SubSeq(events, 1, i - 1)).editors

\* The signature of event i verifies against the key of its created_by.
SignatureVerifies(events, i) ==
    LET editor == RegistryAt(events, i)[events[i].created_by]
    IN  /\ editor.present
        /\ verify(events[i].event_hash, events[i].editor_signature, editor.public_key)

\* An EDITOR_DEACTIVATED at position i names an editor that is registered and
\* active just before it.
DeactivationFollowsRegistration(events, i) ==
    events[i].event_type = "EDITOR_DEACTIVATED" =>
        LET editor == RegistryAt(events, i)[events[i].payload.editor_id]
        IN  editor.present /\ editor.is_active

\* C25: a chain that passes verification (the verified load returns, or
\* verify_chain_integrity returns true) has, for every event, a signature
\* that verifies against the key of its created_by as the earlier events give
\* it, and has no EDITOR_DEACTIVATED without a prior active registration of
\* its target.
C25_IdentitiesVerified ==
    (\/ th[Loader].pc = "loaded_verified" /\ th[Loader].res = "ok"
     \/ th[Loader].pc = "checked" /\ th[Loader].res = "True")
        => \A i \in 1 .. Len(ledger.events) :
              /\ SignatureVerifies(ledger.events, i)
              /\ DeactivationFollowsRegistration(ledger.events, i)


----------------------------------------------------------------------------
(* AnchorService and a client that checks the proofs it hands out.         *)

\* The event id lists a caller passes: nothing, or a run of events.
EventRuns ==
    {<<>>} \cup {[i \in 1 .. (last - first + 1) |-> first + i - 1] :
                    first \in 1 .. MaxAnchored, last \in 1 .. MaxAnchored}

\* create_batch without the look-up of the event ids in the index.
create_batch_check_unindexed(service, event_ids) ==
    IF event_ids = <<>> THEN "ValueError" ELSE "ok"

\* create_batch, lines 356-365: what the call raises before it builds
\* anything.
create_batch_check(service, event_ids) ==
    IF event_ids = <<>> THEN "ValueError"
    ELSE IF \E i \in 1 .. Len(event_ids) : service.event_to_batch[event_ids[i]] # NoBatch
         THEN "ValueError"
    ELSE "ok"

\* create_batch, lines 367-384: the batch over the events named (those of
\* the ledger l) with its Merkle root, appended, and the two indexes.
create_batch(service, l, event_ids) ==
    LET event_hashes == [i \in 1 .. Len(event_ids) |-> l.events[event_ids[i]].event_hash]
        batch_id == Len(service.batches) + 1
        batch == [event_ids |-> event_ids, event_hashes |-> event_hashes,
                  sequence_start |-> l.events[event_ids[1]].sequence_number,
                  sequence_end |-> l.events[event_ids[Len(event_ids)]].sequence_number,
                  merkle_root |-> root_hash(event_hashes)]
    IN  [service EXCEPT
            !.batches = Append(@, batch),
            !.event_to_batch =
                [id \in EventIds |-> IF Contains(event_ids, id) THEN batch_id ELSE @[id]],
            !.event_to_hash =
                [id \in EventIds |-> IF Contains(event_ids, id)
                                     THEN l.events[id].event_hash ELSE @[id]]]

\* AnchorService.create_batch(event_ids, event_hashes, ...), the hashes being
\* those of the events named.
CreateBatch(w, event_ids) ==
    /\ th[w].pc = "idle"
    /\ \A i \in 1 .. Len(event_ids) : event_ids[i] <= Len(ledger.events)
    /\ LET rejected == create_batch_check(anchor, event_ids) # "ok"
       IN  /\ rejected \/ Len(anchor.batches) < MaxBatches
           /\ anchor' = IF rejected THEN anchor ELSE create_batch(anchor, ledger, event_ids)
           /\ th' = [th EXCEPT ![w].op = Op("create_batch", event_ids, None, None),
                               ![w].res = IF rejected THEN "ValueError" ELSE "ok"]
    /\ UNCHANGED <<store, ledger>>

\* AnchorService.prove_event(event_id): None for an event that is not
\* anchored, else the VerificationResult with the proof and its self-check.
ProveEvent(w, event_id) ==
    /\ th[w].pc = "idle"
    /\ LET batch_id == anchor.event_to_batch[event_id]
           batch == anchor.batches[batch_id]
           event_hash == anchor.event_to_hash[event_id]
           proof_data == get_proof_hashes(batch.event_hashes, event_hash)
       IN  th' = [th EXCEPT
                ![w].op = Op("prove_event", event_id, None, None),
                ![w].pc = IF batch_id = NoBatch THEN "idle" ELSE "proved",
                ![w].res =
                    IF batch_id = NoBatch THEN None
                    ELSE [verified |-> verify_proof(event_hash, proof_data.proof_hashes,
                                                    proof_data.proof_directions,
                                                    batch.merkle_root),
                          event_id |-> event_id, event_hash |-> event_hash,
                          batch_id |-> batch_id, merkle_root |-> batch.merkle_root,
                          proof_hashes |-> proof_data.proof_hashes,
                          proof_directions |-> proof_data.proof_directions]]
    /\ UNCHANGED <<store, ledger, anchor>>

\* The holder of a proof turns the direction of step i around.
FlipDirection(w, i) ==
    /\ th[w].pc = "proved"
    /\ i \in 1 .. Len(th[w].res.proof_directions)
    /\ th' = [th EXCEPT ![w].pc = "edited",
                        ![w].op = Op("flip", <<i>>, None, None),
                        ![w].res.proof_directions[i] =
                            IF @ = "left" THEN "right" ELSE "left"]
    /\ UNCHANGED <<store, ledger, anchor>>

\* The holder of a proof exchanges entries i and j of proof_hashes.
SwapHashes(w, i, j) ==
    /\ th[w].pc = "proved"
    /\ i \in 1 .. Len(th[w].res.proof_hashes)
    /\ j \in (i + 1) .. Len(th[w].res.proof_hashes)
    /\ th' = [th EXCEPT ![w].pc = "edited",
                        ![w].op = Op("swap", <<i, j>>, None, None),
                        ![w].res.proof_hashes[i] = th[w].res.proof_hashes[j],
                        ![w].res.proof_hashes[j] = th[w].res.proof_hashes[i]]
    /\ UNCHANGED <<store, ledger, anchor>>

\* AnchorService.verify_proof(proof) on the proof as the holder has it.
VerifyProof(w) ==
    /\ th[w].pc \in {"proved", "edited"}
    /\ th' = [th EXCEPT ![w].pc = "verified",
                        ![w].res.verified =
                            verify_proof(th[w].res.event_hash, th[w].res.proof_hashes,
                                         th[w].res.proof_directions, th[w].res.merkle_root)]
    /\ UNCHANGED <<store, ledger, anchor>>

InitAnchor == Start(ChainOf(SubSeq(History, 1, MaxAnchored)))

StepAnchor(w) ==
    \/ \E event_ids \in EventRuns : CreateBatch(w, event_ids)
    \/ \E event_id \in EventIds : ProveEvent(w, event_id)
    \/ \E i \in 1 .. MaxAnchored : FlipDirection(w, i)
    \/ \E i \in 1 .. MaxAnchored, j \in 1 .. MaxAnchored : SwapHashes(w, i, j)
    \/ VerifyProof(w)

NextAnchor == StepAnchor(Loader)

SpecAnchor == InitAnchor /\ [][NextAnchor]_vars


\* The proof the client holds, and the batch it names.
Held == th[Loader].res
HeldBatch == anchor.batches[Held.batch_id]

\* C26: the inclusion proof that prove_event generates for an event of a
\* batch, of any size from one event on, recomputes the batch's stored
\* merkle_root: its self-check and the standalone verification return true.
C26_ProofRecomputesRoot ==
    (th[Loader].op.kind = "prove_event" /\ th[Loader].pc \in {"proved", "verified"}) =>
        /\ Held.verified
        /\ Held.merkle_root = HeldBatch.merkle_root
        /\ Replay(Held.event_hash, Held.proof_hashes, Held.proof_directions, 1)
              = HeldBatch.merkle_root

\* The proof of the last of five events, whose leaf is paired with itself,
\* was verified.
C26_OddBatchProved ==
    /\ th[Loader].op.kind = "prove_event"
    /\ th[Loader].pc = "verified"
    /\ Len(HeldBatch.event_ids) = 5
    /\ Held.event_id = HeldBatch.event_ids[5]
    /\ Held.verified

\* C27 as stated: a generated proof in which one direction was flipped, or two
\* entries of proof_hashes were swapped, does not verify.
C27_EditedProofFails ==
    (th[Loader].pc = "verified" /\ th[Loader].op.kind \in {"flip", "swap"}) => ~Held.verified

\* The flipped step i pairs the running hash with itself.
SelfPaired(i) ==
    Held.proof_hashes[i] =
        Replay(Held.event_hash, SubSeq(Held.proof_hashes, 1, i - 1),
               SubSeq(Held.proof_directions, 1, i - 1), 1)

\* C27, amended: a generated proof in which two entries of proof_hashes were
\* swapped, or the direction of a step was flipped whose sibling differs from
\* the hash it is combined with, does not verify.
C27_EditedProofFailsUnlessSelfPaired ==
    (/\ th[Loader].pc = "verified"
     /\ \/ th[Loader].op.kind = "swap"
        \/ th[Loader].op.kind = "flip" /\ ~SelfPaired(th[Loader].op.payload[1]))
        => ~Held.verified

\* A proof with a flipped direction was refused.
C27_FlippedProofRefused ==
    /\ th[Loader].pc = "verified"
    /\ th[Loader].op.kind = "flip"
    /\ ~SelfPaired(th[Loader].op.payload[1])
    /\ ~Held.verified

\* The batches that hold event id.
BatchesOf(id) == {b \in 1 .. Len(anchor.batches) : Contains(anchor.batches[b].event_ids, id)}

\* A create_batch call with these event ids must be refused.
MustReject(event_ids) ==
    \/ event_ids = <<>>
    \/ \E i \in 1 .. Len(event_ids) : BatchesOf(event_ids[i]) # {}

\* C28: every event id belongs to at most one batch, and a create_batch call
\* whose input is empty or names an event that is already in a batch raises
\* ValueError and leaves the batches and the indexes as they were.
C28_AnchoredOnce ==
    /\ [](\A id \in EventIds : Cardinality(BatchesOf(id)) <= 1)
    /\ [][(th'[Loader].op.kind = "create_batch" /\ MustReject(th'[Loader].op.payload))
                => (th'[Loader].res = "ValueError" /\ anchor' = anchor)]_vars

\* A second batch was refused because it names an anchored event.
C28_OverlapRefused ==
    /\ th[Loader].op.kind = "create_batch"
    /\ th[Loader].op.payload # <<>>
    /\ th[Loader].res = "ValueError"
    /\ Len(anchor.batches) = 1

----------------------------------------------------------------------------
(* The claim bundle (routes_public.export_claim_bundle) and the standalone *)
(* verifier (tools/verify.py).                                             *)

\* A history in which the events of two claims and an editor registration
\* alternate.
BundleHistory ==
    << Genesis,
       ByE1("declare_claim", ClaimDeclaredPayload("c1")),
       ByE1("declare_claim", ClaimDeclaredPayload("c2")),
       ByE1("operationalize_claim", ClaimOperationalizedPayload("c1")),
       ByE1("register_editor", EditorRegisteredPayload("e2", "admin", "k2", "e1")),
       ByE2("operationalize_claim", ClaimOperationalizedPayload("c2")),
       ByE2("add_evidence", EvidenceAddedPayload("v1", "c1")) >>

\* Every operation of the script passes the validation of the service on the
\* ledger that the operations before it leave.
RECURSIVE Accepted(_)
Accepted(script) ==
    IF script = <<>> THEN TRUE
    ELSE LET n == Len(script)
             before == SubSeq(script, 1, n - 1)
         IN  /\ Accepted(before)
             /\ Validate(load_from_events(ChainOf(before)), script[n]) = "ok"

\* export_claim_bundle, lines 442-449: the events of the claim.
is_claim_event(event, claim_id) ==
    \/ event.entity_id = claim_id
    \/ get(event.payload, "claim_id") = claim_id

\* _serialize_payload: a None value stays in the exported payload as null;
\* strings are exported as they are.
serialize_payload(payload) ==
    [key \in DOMAIN payload |-> IF payload[key] = None THEN None ELSE payload[key]]

\* claim_events.sort(key = sequence_number), from sequence number k on.
RECURSIVE SortedBySequence(_, _)
SortedBySequence(events, k) ==
    IF \A i \in 1 .. Len(events) : events[i].sequence_number < k THEN <<>>
    ELSE LET HasK(e) == e.sequence_number = k
         IN  SelectSeq(events, HasK) \o SortedBySequence(events, k + 1)

RequiredKeys == {"_meta", "_verification", "claim", "events", "editors"}

\* The merkle_proof of an exported event: no code of the service assigns
\* LedgerEvent.merkle_proof, so the export always writes null.  A proof that
\* is present names the root it claims to lead to.
NoProof ==
    [present |-> FALSE, merkle_root |-> NoHash, proof_hashes |-> <<>>,
     proof_directions |-> <<>>]

\* The bundle export_claim_bundle builds from the cached projections of l; the
\* caller has checked that the claim has events.
export_claim_bundle(l, claim_id) ==
    LET IsClaimEvent(e) == is_claim_event(e, claim_id)
        claim_events == SelectSeq(l.events, IsClaimEvent)
        editor_ids_needed == {claim_events[i].created_by : i \in 1 .. Len(claim_events)}
        event_data == [i \in 1 .. Len(claim_events) |->
                          [field \in DOMAIN claim_events[i] \cup {"merkle_proof"} |->
                              CASE field = "merkle_proof" -> NoProof
                                [] field = "payload" -> serialize_payload(claim_events[i].payload)
                                [] OTHER -> claim_events[i][field]]]
    IN  [keys |-> RequiredKeys,
         claim_id |-> claim_id,
         events |-> SortedBySequence(event_data, 0),
         editors |-> [e \in {x \in editor_ids_needed \cap Editors : l.editors[x].present} |->
                         [editor_id |-> e, public_key |-> l.editors[e].public_key,
                          role |-> l.editors[e].role]]]

\* BundleVerifier._check_structure.
check_structure(bundle) ==
    /\ RequiredKeys \subseteq bundle.keys
    /\ Len(bundle.events) # 0

\* compute_event_hash of tools/verify.py: its own canonicalize leaves out None
\* values as the Hasher does; a float makes it raise, which _verify_hashes
\* counts as a failed hash.
compute_event_hash(payload, previous_hash) ==
    IF previous_hash = NoHash THEN <<to_canonical_dict(payload)>>
    ELSE Append(previous_hash, to_canonical_dict(payload))

\* BundleVerifier._verify_hashes.
verify_hashes(bundle) ==
    \A i \in 1 .. Len(bundle.events) :
        LET event == bundle.events[i]
        IN  /\ Canonicalizable(event.payload)
            /\ compute_event_hash(event.payload, event.previous_event_hash) = event.event_hash

\* BundleVerifier._verify_chain_linkage: each event of the bundle names the
\* hash of the event before it in the bundle.  (A sequence number that does
\* not increase only adds a warning.)
verify_chain_linkage(bundle) ==
    \A i \in 2 .. Len(bundle.events) :
        bundle.events[i - 1].event_hash = bundle.events[i].previous_event_hash

\* bundle.get("editors", {}).
editors_of(bundle) == IF "editors" \in bundle.keys THEN bundle.editors ELSE <<>>

\* BundleVerifier._verify_signatures.
verify_signatures(bundle) ==
    \A i \in 1 .. Len(bundle.events) :
        LET event == bundle.events[i]
        IN  /\ event.created_by \in DOMAIN editors_of(bundle)
            /\ verify(event.event_hash, event.editor_signature,
                      editors_of(bundle)[event.created_by].public_key)

\* BundleVerifier._verify_editors.
verify_editors(bundle) ==
    {bundle.events[i].created_by : i \in 1 .. Len(bundle.events)}
        \subseteq DOMAIN editors_of(bundle)

\* BundleVerifier.verify: the verdict.
verify_bundle(bundle) ==
    IF ~check_structure(bundle) THEN "INVALID_FORMAT"
    ELSE IF ~verify_hashes(bundle) THEN "TAMPERED"
    ELSE IF ~verify_chain_linkage(bundle) THEN "TAMPERED"
    ELSE IF ~verify_signatures(bundle) THEN "TAMPERED"
    ELSE IF ~verify_editors(bundle) THEN "INCOMPLETE"
    ELSE "VERIFIED"

\* main(): the exit code of each verdict.
exit_codes(result) ==
    CASE result = "VERIFIED" -> 0
      [] result = "TAMPERED" -> 1
      [] result = "INCOMPLETE" -> 2
      [] result = "INVALID_FORMAT" -> 3

\* The service runs on a chain that it wrote itself.
InitBundle ==
    \E script \in {SubSeq(History, 1, n) : n \in SeedLengths}
                      \cup {SubSeq(BundleHistory, 1, n) : n \in 1 .. Len(BundleHistory)} :
        /\ Accepted(script)
        /\ verify_event_chain(ChainOf(script)) = "ok"
        /\ Start(ChainOf(script))

\* GET /claims/{claim_id}/bundle.json: 404 when the claim has no event, else
\* the bundle.
ExportClaimBundle(w, claim_id) ==
    /\ th[w].pc = "idle"
    /\ LET found == \E i \in 1 .. Len(ledger.events) : is_claim_event(ledger.events[i], claim_id)
       IN  th' = [th EXCEPT ![w].pc = IF found THEN "exported" ELSE "not_found",
                            ![w].op = Op("export_claim_bundle", NoPayload, None, None),
                            ![w].res = IF found THEN export_claim_bundle(ledger, claim_id)
                                       ELSE "HTTPException"]
    /\ UNCHANGED <<store, ledger, anchor>>

\* The holder of the bundle file deletes its editors section.
DeleteEditors(w) ==
    /\ th[w].pc = "exported"
    /\ th' = [th EXCEPT ![w].pc = "bundle_edited",
                        ![w].op = Op("delete_editors", NoPayload, None, None),
                        ![w].res = [@ EXCEPT !.keys = @ \ {"editors"}, !.editors = <<>>]]
    /\ UNCHANGED <<store, ledger, anchor>>

\* The holder of the bundle file deletes the entry of editor e from the
\* editors section.
DeleteEditor(w, e) ==
    /\ th[w].pc = "exported"
    /\ e \in DOMAIN th[w].res.editors
    /\ th' = [th EXCEPT ![w].pc = "bundle_edited",
                        ![w].op = Op("delete_editor", NoPayload, e, None),
                        ![w].res = [@ EXCEPT !.editors =
                                        [x \in DOMAIN @ \ {e} |-> @[x]]]]
    /\ UNCHANGED <<store, ledger, anchor>>

\* A proof offered for event i of the bundle: the proof of its hash in the
\* Merkle tree over the hashes of the bundle's events, with the root of that
\* tree when genuine, else with the hash of the event itself as its root.
MerkleProof(bundle, i, genuine) ==
    LET leaves == [j \in 1 .. Len(bundle.events) |-> bundle.events[j].event_hash]
        proof_data == get_proof_hashes(leaves, leaves[i])
    IN  [present |-> TRUE,
         merkle_root |-> IF genuine THEN root_hash(leaves) ELSE leaves[i],
         proof_hashes |-> proof_data.proof_hashes,
         proof_directions |-> proof_data.proof_directions]

\* The holder of the bundle file gives event i a merkle_proof.
AttachProof(w, i, genuine) ==
    /\ th[w].pc = "exported"
    /\ i \in 1 .. Len(th[w].res.events)
    /\ th' = [th EXCEPT ![w].pc = "bundle_edited",
                        ![w].op = Op("attach_proof", NoPayload, None, None),
                        ![w].res = [@ EXCEPT !.events[i].merkle_proof =
                                                MerkleProof(th[w].res, i, genuine)]]
    /\ UNCHANGED <<store, ledger, anchor>>

\* The holder of the bundle file gives event i the sequence number n.
EditSequenceNumber(w, i, n) ==
    /\ th[w].pc = "exported"
    /\ i \in 1 .. Len(th[w].res.events)
    /\ n # th[w].res.events[i].sequence_number
    /\ th' = [th EXCEPT ![w].pc = "bundle_edited",
                        ![w].op = Op("edit_sequence_number", NoPayload, None, None),
                        ![w].res = [@ EXCEPT !.events[i].sequence_number = n]]
    /\ UNCHANGED <<store, ledger, anchor>>

\* verify <bundle.json>: the verifier holds the bundle it read, its verdict
\* and the exit code of the process.
VerifyBundle(w) ==
    /\ th[w].pc \in {"exported", "bundle_edited"}
    /\ th' = [th EXCEPT ![w].pc = "bundle_verified",
                        ![w].res = [bundle |-> th[w].res,
                                    result |-> verify_bundle(th[w].res),
                                    exit_code |-> exit_codes(verify_bundle(th[w].res))]]
    /\ UNCHANGED <<store, ledger, anchor>>

StepBundle(w) ==
    \/ \E claim_id \in ClaimIds : ExportClaimBundle(w, claim_id)
    \/ DeleteEditors(w)
    \/ \E e \in Editors : DeleteEditor(w, e)
    \/ \E i \in 1 .. Len(ledger.events), genuine \in BOOLEAN : AttachProof(w, i, genuine)
    \/ \E i \in 1 .. Len(ledger.events), n \in 0 .. Len(ledger.events) :
          EditSequenceNumber(w, i, n)
    \/ VerifyBundle(w)

NextBundle == StepBundle(Loader)

SpecBundle == InitBundle /\ [][NextBundle]_vars

\* The verifier's report on the bundle it read.
Report == th[Loader].res

\* C29: the bundle exported for a claim of a valid chain, verified as it was
\* exported, gets the verdict VERIFIED, also when events of other claims or
\* editor events lie between the events of the claim.
C29_ExportedBundleVerified ==
    (th[Loader].pc = "bundle_verified" /\ th[Loader].op.kind = "export_claim_bundle")
        => Report.result = "VERIFIED"

\* An event of the bundle whose created_by has no entry in editors.
EditorMissing(bundle) ==
    \E i \in 1 .. Len(bundle.events) : bundle.events[i].created_by \notin DOMAIN bundle.editors

\* C30: a bundle whose editors section was deleted, or in which the created_by
\* of an event has no entry in editors, gets the verdict INCOMPLETE and the
\* exit code 2.
C30_MissingEditorsIncomplete ==
    (/\ th[Loader].pc = "bundle_verified"
     /\ \/ th[Loader].op.kind = "delete_editors"
        \/ th[Loader].op.kind = "delete_editor" /\ EditorMissing(Report.bundle))
        => (Report.result = "INCOMPLETE" /\ Report.exit_code = 2)

\* An event of the bundle carries a merkle_proof whose replay from the
\* event's hash does not give the root the proof declares.
ProofFails(bundle) ==
    \E i \in 1 .. Len(bundle.events) :
        LET proof == bundle.events[i].merkle_proof
        IN  /\ proof.present
            /\ ~verify_proof(bundle.events[i].event_hash, proof.proof_hashes,
                             proof.proof_directions, proof.merkle_root)

\* C31: a bundle in which an event carries a merkle_proof that does not
\* reproduce its declared root does not get the verdict VERIFIED.
C31_FailedProofNotVerified ==
    (th[Loader].pc = "bundle_verified" /\ ProofFails(Report.bundle))
        => Report.result # "VERIFIED"

\* C38: a bundle whose events are not in strictly increasing order of
\* sequence_number does not get the verdict VERIFIED.
C38_UnorderedNotVerified ==
    (/\ th[Loader].pc = "bundle_verified"
     /\ \E i \in 2 .. Len(Report.bundle.events) :
            Report.bundle.events[i].sequence_number
                <= Report.bundle.events[i - 1].sequence_number)
        => Report.result # "VERIFIED"

----------------------------------------------------------------------------
(* PostgresEventStore.begin_append: the head row lock and its timeouts.    *)

\* What the database raises while a statement of the append runs.  pgerror
\* is given by the phrases that occur in the message.
PgError(cause) ==
    CASE cause = "lock_timeout" ->
           [class |-> "LockNotAvailable", pgcode |-> "55P03",
            pgerror |-> {"lock timeout", "lock", "statement", "timeout"}]
      [] cause = "statement_timeout" ->
           [class |-> "QueryCanceled", pgcode |-> "57014",
            pgerror |-> {"statement timeout", "statement", "timeout"}]
      [] cause = "user_request" ->
           [class |-> "QueryCanceled", pgcode |-> "57014",
            pgerror |-> {"statement"}]

Causes == {"lock_timeout", "statement_timeout", "user_request"}

\* PostgresEventStore._timeout_kind.
timeout_kind(e) ==
    IF e.pgcode = "55P03" THEN "lock"
    ELSE IF e.pgcode = "57014"
         THEN (IF "lock timeout" \in e.pgerror THEN "lock"
               ELSE IF "statement timeout" \in e.pgerror THEN "statement"
               ELSE "timeout")
    ELSE IF {"lock", "timeout"} \subseteq e.pgerror THEN "lock"
    ELSE IF {"statement", "timeout"} \subseteq e.pgerror THEN "statement"
    ELSE None

\* begin_append, lines 563-574: the exception that leaves the except clause
\* around SELECT ... FOR UPDATE.
select_for_update_raises(e) ==
    CASE timeout_kind(e) = "lock" -> "LockTimeoutError"
      [] timeout_kind(e) = "statement" -> "EventStoreError"
      [] OTHER -> e.class

\* The appends of the two callers are told apart by their editor.
PostgresOperations(w) ==
    {IF w = "w1" THEN ByE1("declare_claim", ClaimDeclaredPayload(c))
     ELSE ByE2("declare_claim", ClaimDeclaredPayload(c)) : c \in ClaimIds}

\* A caller enters begin_append: a connection of its own, BEGIN, SET LOCAL.
PgBeginAppend(w, o) ==
    /\ th[w].pc = "idle"
    /\ th[w].n < OpsPerWriter
    /\ th' = [th EXCEPT ![w].pc = "pg_select", ![w].op = o, ![w].n = @ + 1]
    /\ UNCHANGED <<store, ledger, anchor>>

\* SELECT ... FOR UPDATE returns once no other transaction holds the head
\* row; the caller builds its event on the head it read.
PgSelectForUpdate(w) ==
    /\ th[w].pc = "pg_select"
    /\ ~store.lock
    /\ store' = [store EXCEPT !.lock = TRUE]
    /\ th' = [th EXCEPT ![w].pc = "pg_do_commit",
                        ![w].head = store.head,
                        ![w].event = EventFor(th[w].op, store.head)]
    /\ UNCHANGED <<ledger, anchor>>

\* SELECT ... FOR UPDATE raises: the lock timeout while another transaction
\* holds the row, the statement timeout or a cancellation at any time.  No
\* context exists yet, so the finally clause only closes the connection.
PgSelectRaises(w, cause) ==
    /\ th[w].pc = "pg_select"
    /\ cause = "lock_timeout" => store.lock
    /\ th' = [th EXCEPT ![w].pc = "pg_failed",
                        ![w].err = cause,
                        ![w].res = select_for_update_raises(PgError(cause))]
    /\ UNCHANGED <<store, ledger, anchor>>

\* ctx.commit -> _do_commit: the checks, INSERT, UPDATE of the head and
\* conn.commit(), which releases the row; for a refused event the finally
\* clause of begin_append rolls back.
PgDoCommit(w) ==
    /\ th[w].pc = "pg_do_commit"
    /\ LET check == postgres_do_commit_check(store.head, th[w].event) IN
       IF check = "ok"
       THEN /\ store' = [store EXCEPT
                   !.events = Append(@, th[w].event),
                   !.head = ChainHead(th[w].event.sequence_number, th[w].event.event_hash),
                   !.lock = FALSE]
            /\ th' = [th EXCEPT ![w].pc = "pg_done", ![w].res = "ok"]
       ELSE /\ store' = [store EXCEPT !.lock = FALSE]
            /\ th' = [th EXCEPT ![w].pc = "pg_failed", ![w].res = check]
    /\ UNCHANGED <<ledger, anchor>>

\* A statement of _do_commit is cancelled: no except clause is around it, the
\* driver's exception leaves begin_append, whose finally clause rolls back.
PgDoCommitRaises(w, cause) ==
    /\ th[w].pc = "pg_do_commit"
    /\ cause \in {"statement_timeout", "user_request"}
    /\ store' = [store EXCEPT !.lock = FALSE]
    /\ th' = [th EXCEPT ![w].pc = "pg_failed",
                        ![w].err = cause,
                        ![w].res = PgError(cause).class]
    /\ UNCHANGED <<ledger, anchor>>

InitPostgres == \E n \in {1, 3} : Start(ChainOf(SubSeq(History, 1, n)))

StepPostgres(w) ==
    \/ \E o \in PostgresOperations(w) : PgBeginAppend(w, o)
    \/ PgSelectForUpdate(w)
    \/ \E cause \in Causes : PgSelectRaises(w, cause)
    \/ PgDoCommit(w)
    \/ \E cause \in Causes \ {"lock_timeout"} : PgDoCommitRaises(w, cause)

NextPostgres == \E w \in Writers : StepPostgres(w)

SpecPostgres == InitPostgres /\ [][NextPostgres]_vars

\* C32: an append that ran into the lock timeout fails with LockTimeoutError,
\* one that ran into the statement timeout fails with one error kind of its
\* own (the same wherever the statement timeout struck, and an error that no
\* failure of another cause gets), and neither commits its event.
C32_TimeoutsDistinct ==
    \A w \in Writers :
        (th[w].pc = "pg_failed" /\ th[w].err \in {"lock_timeout", "statement_timeout"}) =>
            /\ th[w].err = "lock_timeout" => th[w].res = "LockTimeoutError"
            /\ \A v \in Writers :
                  th[v].pc = "pg_failed" =>
                      ((th[v].err = th[w].err) <=> (th[v].res = th[w].res))
            /\ ~Contains(store.events, th[w].event)

----------------------------------------------------------------------------
(* One caller at a time: the lifecycle of a claim.                         *)

\* Calls made by the one caller (a bound of the model).
SerialOps == 5

\* A public operation of LedgerService from call to return, with no other
\* thread in the service: the validation, _create_event_internal, the append
\* on the head of the store and the update of the projections.  (The append
\* scope is opened and closed within the call.)
CallService(w, o) ==
    /\ th[w].pc = "idle"
    /\ th[w].n < SerialOps
    /\ LET signed == [o EXCEPT !.editor = SigningEditor(ledger, o)]
           check == IF Validate(ledger, o) # "ok" THEN Validate(ledger, o)
                    ELSE ValidateActingEditor(ledger, signed.editor, {}, signed.key)
           event == EventFor(signed, store.head)
       IN  IF check # "ok"
           THEN /\ th' = [th EXCEPT ![w].res = check, ![w].n = @ + 1, ![w].op = o]
                /\ UNCHANGED <<store, ledger>>
           ELSE /\ do_commit_check(store.head, event) = "ok"
                /\ store' = [store EXCEPT
                       !.events = Append(@, event),
                       !.head = ChainHead(event.sequence_number, event.event_hash)]
                /\ ledger' = update_cache(ledger, signed, event)
                /\ th' = [th EXCEPT ![w].res = "ok", ![w].n = @ + 1, ![w].op = signed]
    /\ UNCHANGED anchor

NextSerial == \E o \in LongOperations : CallService(Loader, o)

SpecSerial == InitLong /\ [][NextSerial]_vars

\* A listing that also takes the events whose payload names the entity.
list_for_entity_or_claim(st, entity_id) ==
    LET Names(e) == e.entity_id = entity_id \/ get(e.payload, "claim_id") = entity_id
    IN  SortedBySequence(SelectSeq(st.events, Names), 0)

\* InMemoryEventStore.list_for_entity.
list_for_entity(st, entity_id) ==
    LET OfEntity(e) == e.entity_id = entity_id
    IN  SortedBySequence(SelectSeq(st.events, OfEntity), 0)

\* The five events after the established chain are the lifecycle of claim c:
\* declared, operationalized, two evidence items, resolved.
Lifecycle(c) ==
    LET first == Len(ChainOf(SubSeq(History, 1, 3))) IN
    /\ Len(store.events) = first + 5
    /\ \A k \in 1 .. 5 : store.events[first + k].payload.claim_id = c
    /\ [k \in 1 .. 5 |-> store.events[first + k].event_type]
          = <<"CLAIM_DECLARED", "CLAIM_OPERATIONALIZED", "EVIDENCE_ADDED",
              "EVIDENCE_ADDED", "CLAIM_RESOLVED">>

\* C33 as stated: after the lifecycle of a claim list_for_entity(claim_id)
\* returns 4 events, in ascending order of sequence_number.
C33_FourLifecycleEvents ==
    \A c \in ClaimIds :
        Lifecycle(c) =>
            LET listed == list_for_entity(store, c) IN
            /\ Len(listed) = 4
            /\ \A i \in 2 .. Len(listed) :
                  listed[i - 1].sequence_number < listed[i].sequence_number

\* C33, amended: after the lifecycle of a claim list_for_entity(claim_id)
\* returns the 3 events whose entity is the claim (declared, operationalized,
\* resolved) in ascending order of sequence_number; the two EVIDENCE_ADDED
\* events have the evidence as their entity and are not listed.
C33_ThreeClaimEvents ==
    \A c \in ClaimIds :
        Lifecycle(c) =>
            LET listed == list_for_entity(store, c) IN
            /\ [i \in 1 .. Len(listed) |-> listed[i].event_type]
                  = <<"CLAIM_DECLARED", "CLAIM_OPERATIONALIZED", "CLAIM_RESOLVED">>
            /\ \A i \in 1 .. Len(listed) : listed[i].entity_id = c
            /\ \A i \in 2 .. Len(listed) :
                  listed[i - 1].sequence_number < listed[i].sequence_number

\* The lifecycle of c1 with the evidence items v1 and v2 has run.
C33_LifecycleRun ==
    /\ Lifecycle("c1")
    /\ ledger.claims["c1"] = "resolved"
    /\ ledger.claim_evidence["c1"] = <<"v1", "v2">>
    /\ Len(list_for_entity(store, "c1")) = 3

\* C39: no evidence id is attached to the same claim more than once.
C39_EvidenceIsSet ==
    \A c \in ClaimIds :
        \A i, j \in 1 .. Len(ledger.claim_evidence[c]) :
            ledger.claim_evidence[c][i] = ledger.claim_evidence[c][j] => i = j

----------------------------------------------------------------------------
(* The two-phase API under several threads.                                *)

\* Errors that no caller's input explains: they come from the state of the
\* context managers and of the lock.
ScopeErrors == {"AttributeError", "RuntimeError", "ValueError", "EventStoreError"}

\* C34: commit_append of a thread acts on the append scope that the thread's
\* own reserve_head opened, and no call ends with an error that stems from
\* another thread's scope.
C34_OwnScopeOnly ==
    /\ [](\A w \in Writers : th[w].res \notin ScopeErrors)
    /\ [][\A w \in Writers :
              (th[w].pc = "commit_append" /\ th'[w].pc \in {"do_commit", "exit_exc"})
                  => th'[w].ctx = th[w].ctx]_vars

----------------------------------------------------------------------------
(* The cache of the service and its backing store.                         *)

\* health_ledger's head_consistent.
head_consistent(l, st) ==
    /\ l.last_hash = st.head.last_event_hash
    /\ l.next_sequence = st.head.last_sequence + 1

\* C35: whenever no operation is in progress the service's cached event
\* list, next_sequence_number and last_event_hash equal the backing store's
\* list_all(), head.next_sequence and head.last_event_hash.
C35_CacheEqualsStore ==
    Quiescent =>
        /\ ledger.events = list_all(store)
        /\ head_consistent(ledger, store)

----------------------------------------------------------------------------
(* AnchorScheduler: the background thread and a caller of anchor_event.    *)

\* AnchorConfig: events per batch (a bound of the model) and the least
\* number of unanchored events for which batches are created (the default).
batch_size == 2
min_events_to_anchor == 1

\* The thread of _run_loop, and a thread that calls anchor_event.
Scheduler == "w1"
Caller == "w2"

\* The events of get_events() (by position) whose sequence_number lies in
\* first .. last, in the order of the cached list.
EventsInRange(l, first, last) ==
    LET InRange(i) == /\ l.events[i].sequence_number >= first
                      /\ l.events[i].sequence_number <= last
    IN  SelectSeq([i \in 1 .. Len(l.events) |-> i], InRange)

\* batch_events = unanchored[i:i + batch_size] for the part of `unanchored`
\* that the loop has not reached yet.
NextSlice(unanchored) ==
    SubSeq(unanchored, 1, IF Len(unanchored) < batch_size THEN Len(unanchored) ELSE batch_size)

\* create_pending_batches, lines 165-176: one read of the cached events and
\* of _last_anchored_sequence; too few unanchored events end the call.
CreatePendingBatches(w) ==
    /\ th[w].pc = "idle"
    /\ LET unanchored == EventsInRange(ledger, anchor.last_anchored_sequence + 1,
                                       Len(History))
       IN  /\ ledger.events # <<>>
           /\ Len(unanchored) >= min_events_to_anchor
           /\ th' = [th EXCEPT ![w].pc = "for_batch",
                               ![w].op.kind = "create_pending_batches",
                               ![w].res = unanchored]
    /\ UNCHANGED <<store, ledger, anchor>>

\* The loop body up to create_batch, lines 181-200: a ValueError of
\* create_batch is logged and the loop goes on with the next slice.
PendingCreateBatch(w) ==
    /\ th[w].pc = "for_batch"
    /\ th[w].res # <<>>
    /\ LET batch_events == NextSlice(th[w].res)
           rejected == create_batch_check(anchor, batch_events) # "ok"
       IN  /\ anchor' = IF rejected THEN anchor
                        ELSE create_batch(anchor, ledger, batch_events)
           /\ th' = [th EXCEPT
                  ![w].pc = IF rejected THEN "for_batch" ELSE "batch_created",
                  ![w].err = IF rejected THEN "ValueError" ELSE None,
                  ![w].res = IF rejected
                             THEN SubSeq(@, Len(batch_events) + 1, Len(@)) ELSE @]
    /\ UNCHANGED <<store, ledger>>

\* self._last_anchored_sequence = seq_end, line 202.
PendingAssignLast(w) ==
    /\ th[w].pc = "batch_created"
    /\ LET batch_events == NextSlice(th[w].res)
           seq_end == ledger.events[batch_events[Len(batch_events)]].sequence_number
       IN  /\ anchor' = [anchor EXCEPT !.last_anchored_sequence = seq_end]
           /\ th' = [th EXCEPT ![w].pc = "for_batch",
                               ![w].res = SubSeq(@, Len(batch_events) + 1, Len(@))]
    /\ UNCHANGED <<store, ledger>>

\* The loop is through: create_pending_batches returns and _run_loop waits
\* for the next interval.
PendingReturn(w) ==
    /\ th[w].pc = "for_batch"
    /\ th[w].res = <<>>
    /\ th' = [th EXCEPT ![w].pc = "idle", ![w].err = None]
    /\ UNCHANGED <<store, ledger, anchor>>

\* _run_loop: create_pending_batches again and again.
RunLoop(w) ==
    \/ CreatePendingBatches(w)
    \/ PendingCreateBatch(w)
    \/ PendingAssignLast(w)
    \/ PendingReturn(w)

\* anchor_event(event_id), lines 223-240: the batch the event is in, or None
\* for an unknown event or an empty range, else the events to anchor.
AnchorEvent(w, event_id) ==
    /\ th[w].pc = "idle"
    /\ LET found == event_id <= Len(ledger.events)
           batch_events ==
               IF found
               THEN EventsInRange(ledger, anchor.last_anchored_sequence + 1,
                                  ledger.events[event_id].sequence_number)
               ELSE <<>>
           returns == \/ anchor.event_to_batch[event_id] # NoBatch
                      \/ batch_events = <<>>
       IN  th' = [th EXCEPT ![w].pc = IF returns THEN "idle" ELSE "anchor_event",
                            ![w].op.kind = "anchor_event",
                            ![w].n = event_id,
                            ![w].err = None,
                            ![w].res = batch_events]
    /\ UNCHANGED <<store, ledger, anchor>>

\* anchor_event, lines 245-250: create_batch; its ValueError ends the call.
AnchorEventCreateBatch(w) ==
    /\ th[w].pc = "anchor_event"
    /\ LET rejected == create_batch_check(anchor, th[w].res) # "ok"
       IN  /\ anchor' = IF rejected THEN anchor
                        ELSE create_batch(anchor, ledger, th[w].res)
           /\ th' = [th EXCEPT
                  ![w].pc = IF rejected THEN "idle" ELSE "event_anchored",
                  ![w].err = IF rejected THEN "ValueError" ELSE None]
    /\ UNCHANGED <<store, ledger>>

\* anchor_event, line 252: self._last_anchored_sequence = the last sequence
\* number of the batch.
AnchorEventAssignLast(w) ==
    /\ th[w].pc = "event_anchored"
    /\ anchor' = [anchor EXCEPT !.last_anchored_sequence =
                     ledger.events[th[w].res[Len(th[w].res)]].sequence_number]
    /\ th' = [th EXCEPT ![w].pc = "idle"]
    /\ UNCHANGED <<store, ledger>>

NextScheduler ==
    \/ RunLoop(Scheduler)
    \/ \E event_id \in EventIds : AnchorEvent(Caller, event_id)
    \/ AnchorEventCreateBatch(Caller)
    \/ AnchorEventAssignLast(Caller)

\* AnchorScheduler.__init__ on a ledger of MaxAnchored events and a new
\* AnchorService: no batch, _last_anchored_sequence = -1, no call running.
InitScheduler ==
    LET chain == ChainOf(SubSeq(History, 1, MaxAnchored)) IN
    /\ store = [events |-> chain, head |-> HeadOf(chain), lock |-> FALSE,
                legacy_ctx |-> NoScope, legacy_ctx_gen |-> NoScope,
                scopes |-> [s \in Scopes |-> NewScope], nscopes |-> 0]
    /\ ledger = load_from_events(chain)
    /\ th = [w \in Writers |-> [Idle EXCEPT !.res = <<>>]]
    /\ anchor = EmptyAnchor

SpecScheduler == InitScheduler /\ [][NextScheduler]_vars

\* The thread of _run_loop is a daemon thread that wakes up every
\* interval_seconds and takes no lock, so no caller blocks it; a call of
\* anchor_event that has begun runs to its end.
SpecSchedulerFair ==
    /\ SpecScheduler
    /\ WF_vars(RunLoop(Scheduler))
    /\ WF_vars(AnchorEventCreateBatch(Caller) \/ AnchorEventAssignLast(Caller))

\* The sequence numbers of the events of a batch, in the order of the batch.
SequencesOf(batch) ==
    [k \in 1 .. Len(batch.event_ids) |-> ledger.events[batch.event_ids[k]].sequence_number]

\* C36: the batches partition the events with sequence_number <=
\* last_anchored_sequence: each such event is in exactly one batch, and each
\* batch holds the contiguous range sequence_start .. sequence_end.
C36_BatchesPartition ==
    /\ \A id \in 1 .. Len(ledger.events) :
          ledger.events[id].sequence_number <= anchor.last_anchored_sequence
              => Cardinality(BatchesOf(id)) = 1
    /\ \A b \in 1 .. Len(anchor.batches) :
          LET batch == anchor.batches[b] IN
          SequencesOf(batch) =
              [k \in 1 .. (batch.sequence_end - batch.sequence_start + 1) |->
                  batch.sequence_start + k - 1]

\* C37: while the scheduler keeps running, every committed event is
\* eventually included in an anchor batch.
C37_EventuallyAnchored ==
    \A id \in 1 .. MaxAnchored :
        (id <= Len(store.events)) ~> (BatchesOf(id) # {})

=============================================================================
